---- MODULE Spec2Model ----
(***************************************************************************)
(* The retrieval pipeline of insurance-lens-app: VectorStore               *)
(* (backend/app/services/vector_store.py) over a Qdrant client, an         *)
(* embedding service, a BM25 index and a reranker.                         *)
(*                                                                         *)
(* Scores are exact fractions [n, d] with d > 0 (floating point rounding   *)
(* is not modelled).  Texts are sequences of words; an embedding is a      *)
(* two-dimensional integer vector whose length is an integer, so that the  *)
(* cosine similarity Qdrant computes is an exact fraction.                 *)
(***************************************************************************)
EXTENDS Integers, Sequences, FiniteSets, TLC

\* Longest chunk list handed to store_chunks.
MaxChunks == 3
\* Largest limit a caller requests.
MaxLimit == 2
\* Number of distinct keys inserted into a VectorDatabase.
MaxKeys == 3

\* The longest text handed to a splitter, in characters.
MaxTextLen == 4

\* The largest chunk_size of a CharacterTextSplitter, the default apart.
MaxChunkSize == 3

\* The pages of a document, the characters of a page, the chunks a document
\* is cut into.
MaxPages == 2

MaxPageLen == 2

MaxSpans == 2

\* The number of chunks of an uploaded policy.
MaxUploadChunks == 2

\* The largest max_refinements of a helpfulness agent.
MaxRefinements == 2

\* The rounds of tool calls the model asks for in one run.
MaxToolRounds == 2

----------------------------------------------------------------------------
\* Fractions

Frac(n, d) == [n |-> n, d |-> d]

FLe(a, b) == a.n * b.d <= b.n * a.d

FLt(a, b) == a.n * b.d < b.n * a.d

FEq(a, b) == a.n * b.d = b.n * a.d

FAdd(a, b) == Frac(a.n * b.d + b.n * a.d, a.d * b.d)

FSub(a, b) == Frac(a.n * b.d - b.n * a.d, a.d * b.d)

FMul(a, b) == Frac(a.n * b.n, a.d * b.d)

Zero == Frac(0, 1)

One == Frac(1, 1)

----------------------------------------------------------------------------
\* Data

\* Every operation addresses the one collection named after its policy_id.
PolicyIds == {"p1"}

\* An Optional[int] limit: <<>> is None, <<k>> is the integer k.
NoLimit == << >>

Some(k) == <<k>>

\* A TextChunk as chunk_text builds it: start_char and end_char are None.
Chunk(id, text, page, idx) ==
    [id |-> id, text |-> text, page |-> page, chunk_index |-> idx,
     token_count |-> Len(text), start_char |-> "None", end_char |-> "None"]

\* The chunks of one processed document, in chunk_index order; ids follow
\* text_chunker.py's f"{filename}_{strategy}_{i}".  Two chunks carry the
\* same text.
PoolSeq ==
    << Chunk("doc_semantic_0", <<"A", "b">>, 1, 0),
       Chunk("doc_semantic_1", <<"A", "b">>, 1, 1),
       Chunk("doc_semantic_2", <<"c">>, 2, 2),
       Chunk("doc_semantic_3", <<"a">>, 2, 3) >>

ChunkPool == {PoolSeq[i] : i \in DOMAIN PoolSeq}

\* The chunk lists a caller passes to store_chunks.
ChunkLists ==
    { SelectSeq(PoolSeq, LAMBDA c : c \in S) :
        S \in {T \in SUBSET ChunkPool : Cardinality(T) <= MaxChunks} }

Queries == { <<"a">>, <<"C">> }

Limits == {NoLimit} \cup {Some(k) : k \in 0 .. MaxLimit}

\* bm25_weight: 0, 1/2 (the default) and 1.
Weights == { Frac(0, 1), Frac(1, 2), Frac(1, 1) }

Thresholds == { Frac(1, 2), Frac(7, 10) }

\* rerank_top_k: 1 and the default.
DefaultRerankTopK == 10

RerankTopKs == {1, DefaultRerankTopK}

\* CohereRerank returns its top_n best documents; the reranker is built
\* without top_n, which leaves the class default.
TopN == 3

\* The relevance scores the reranker hands out.
RelevanceScores == { Frac(1, 4), Frac(3, 4) }

----------------------------------------------------------------------------
\* Embedding service and cosine distance

\* embed_text: a deterministic map from a text to its vector.
Embed(text) ==
    CASE text = <<"a">>      -> <<1, 0>>
      [] text = <<"b">>      -> <<0, 1>>
      [] text = <<"c">>      -> <<-1, 0>>
      [] text = <<"C">>      -> <<0, -1>>
      [] text = <<"A", "b">> -> <<3, 4>>

Dot(u, v) == u[1] * v[1] + u[2] * v[2]

Norm(v) == CHOOSE k \in 0 .. 5 : k * k = Dot(v, v)

\* Distance.COSINE: the score of a stored vector against the query vector.
Cosine(u, v) == Frac(Dot(u, v), Norm(u) * Norm(v))

----------------------------------------------------------------------------
VARIABLES
    config,    \* VectorStoreConfig: max_results, similarity_threshold
    qdrant,    \* collection name -> sequence of points, for existing collections
    last,      \* the call that has just run: operation, arguments, outcome
    prev,      \* the preceding call, when it was a delete_policy: its policy and result
    vectors,   \* VectorDatabase.vectors: the (key, vector) items in insertion order
    db_last,   \* the VectorDatabase call that has just run
    ask,       \* the request on the ask route: where it stands, its AgentState, its outcome
    reader,    \* a search running step by step: its position and local variables
    writer,    \* a create / store / delete running step by step beside the search
    splitter,  \* a CharacterTextSplitter: its parameters and its last split
    chunker,   \* the chunk_text call that has just run
    files,     \* uploads_dir: the policy ids whose PDF file is saved
    issued,    \* the policy ids uuid4 has handed out
    service,   \* the PolicyService call that has just run, and the one before it
    helpful,   \* a run of the helpfulness agent graph: its node and its state
    rag,       \* the chat app's globals vector_database and embedding_model
    requests   \* the chat app's requests in flight: where each one stands

\* The variables of the VectorStore of insurance-lens-app.
storeVars == <<config, qdrant, last, prev>>

\* The variables of the VectorDatabase of fullstack-rag-pdf-chat-app.
dbVars == <<vectors, db_last>>

\* The variables of two VectorStore calls running side by side.
raceVars == <<reader, writer>>

\* The variables of the two text splitting functions.
textVars == <<splitter, chunker>>

\* The variables of the PolicyService of insurance-lens-app.
serviceVars == <<files, issued, service>>

\* The variables of the API of fullstack-rag-pdf-chat-app.
chatVars == <<rag, requests>>

\* The variables of PolicyService, the helpfulness agent and the chat app.
appVars == <<serviceVars, helpful, chatVars>>

vars == <<storeVars, dbVars, ask, raceVars, textVars, appVars>>

\* What an action of the PolicyService leaves alone.
notService == <<config, last, prev, dbVars, ask, raceVars, textVars, helpful, chatVars>>

\* What an action of the helpfulness agent leaves alone.
notHelpful == <<storeVars, dbVars, ask, raceVars, textVars, serviceVars, chatVars>>

\* What an action of the chat app leaves alone.
notChat == <<storeVars, dbVars, ask, raceVars, textVars, serviceVars, helpful>>

\* What an action of the VectorStore leaves alone.
notStore == <<dbVars, ask, raceVars, textVars, appVars>>

\* What an action of the VectorDatabase leaves alone.
notDb == <<storeVars, ask, raceVars, textVars, appVars>>

\* What a step of a request on the ask route leaves alone: it reads the
\* VectorStore and writes none of it.
notAsk == <<storeVars, dbVars, raceVars, textVars, appVars>>

\* What a step of one of two concurrent VectorStore calls leaves alone.
notRace == <<config, last, prev, dbVars, ask, textVars, appVars>>

\* What a call of a text splitting function leaves alone.
notText == <<storeVars, dbVars, ask, raceVars, appVars>>

Idle == [op |-> "idle"]

NoDelete == [op |-> "other"]

collection_prefix == "policy_"

CollectionName(policy_id) == <<collection_prefix, policy_id>>

collection_exists(q, name) == name \in DOMAIN q

delete_collection(q, name) == [c \in DOMAIN q \ {name} |-> q[c]]

create_collection(q, name) == [c \in DOMAIN q \cup {name} |-> IF c = name THEN <<>> ELSE q[c]]

\* A faulty variant of CreatePolicyCollection: an existing collection is kept as it is.
CreateIfMissing(q, policy_id) ==
    IF collection_exists(q, CollectionName(policy_id)) THEN q
    ELSE create_collection(q, CollectionName(policy_id))

\* create_policy_collection: the Qdrant state after the call.
CreatePolicyCollection(q, policy_id) ==
    LET name == CollectionName(policy_id)
        q1 == IF collection_exists(q, name) THEN delete_collection(q, name) ELSE q
    IN create_collection(q1, name)

\* The payload {**chunk.to_dict(), "policy_id": policy_id}.
Payload(chunk, policy_id) ==
    [f \in DOMAIN chunk \cup {"policy_id"} |->
        IF f = "policy_id" THEN policy_id ELSE chunk[f]]

\* The point store_chunks builds for a chunk: a fresh uuid4 (uuid k stands for
\* an id no stored point has), the embedding of the chunk's text, the payload.
Point(uuid, chunk, policy_id) ==
    [id |-> <<"uuid4", uuid>>, vector |-> Embed(chunk.text),
     payload |-> Payload(chunk, policy_id)]

Points(chunks, policy_id, stored) ==
    [i \in 1 .. Len(chunks) |-> Point(Len(stored) + i, chunks[i], policy_id)]

\* qdrant_client.upsert: a point replaces the stored point of the same id,
\* any other point is appended.
RECURSIVE Upsert(_, _)
Upsert(stored, points) ==
    IF points = <<>> THEN stored
    ELSE LET p == Head(points)
             hit == {i \in 1 .. Len(stored) : stored[i].id = p.id}
             next == IF hit = {} THEN Append(stored, p)
                     ELSE [i \in 1 .. Len(stored) |-> IF i \in hit THEN p ELSE stored[i]]
         IN Upsert(next, Tail(points))

----------------------------------------------------------------------------
\* Retrieval

Min(a, b) == IF a <= b THEN a ELSE b

\* `limit or self.config.max_results`: None and 0 are both falsy.
LimitOr(limit, max_results) ==
    IF limit = NoLimit \/ limit = Some(0) THEN max_results ELSE limit[1]

\* The exception a failing embeddings.create call raises out of embed_text, and
\* the one a failing reranker.compress_documents call raises: neither is caught
\* or wrapped in VectorStore.
EmbeddingFailure == "exception of openai_client.embeddings.create"

RerankerFailure == "exception of reranker.compress_documents"

SearchResult(chunk, score) == [chunk |-> chunk, score |-> score]

\* The TextChunk rebuilt from a stored payload.
TextChunk(payload) ==
    [id |-> payload.id, text |-> payload.text, page |-> payload.page,
     chunk_index |-> payload.chunk_index, token_count |-> payload.token_count,
     start_char |-> payload.start_char, end_char |-> payload.end_char]

\* A faulty variant of SortDesc: the results are left in the order they came in.
SortDescUnsorted(s) == s

\* A stable sort by descending score, as Python's sorted(..., reverse=True).
RECURSIVE InsertDesc(_, _)
InsertDesc(x, s) ==
    IF s = <<>> THEN <<x>>
    ELSE IF FLt(x.score, Head(s).score) THEN <<Head(s)>> \o InsertDesc(x, Tail(s))
    ELSE <<x>> \o s

RECURSIVE SortDesc(_)
SortDesc(s) == IF s = <<>> THEN <<>> ELSE InsertDesc(Head(s), SortDesc(Tail(s)))

Take(s, k) == SubSeq(s, 1, Min(k, Len(s)))

\* qdrant_client.search: the points scoring at least score_threshold against
\* the query vector, best first, at most limit of them.
QdrantSearch(points, query_vector, limit, score_threshold) ==
    LET scored == [i \in 1 .. Len(points) |->
                     [payload |-> points[i].payload,
                      score |-> Cosine(query_vector, points[i].vector)]]
        kept == SelectSeq(scored, LAMBDA r : FLe(score_threshold, r.score))
    IN Take(SortDesc(kept), limit)

\* A faulty variant of SearchSimilarChunks: the query is embedded before the collection
\* is looked up.
SearchSimilarChunksEmbedFirst(q, cfg, policy_id, query, limit, embedOk) ==
    LET name == CollectionName(policy_id)
    IN IF ~embedOk THEN [raised |-> TRUE, error |-> EmbeddingFailure]
       ELSE IF ~collection_exists(q, name) THEN [raised |-> FALSE, ret |-> <<>>]
       ELSE LET results == QdrantSearch(q[name], Embed(query),
                                        LimitOr(limit, cfg.max_results),
                                        cfg.similarity_threshold)
            IN [raised |-> FALSE,
                ret |-> [i \in 1 .. Len(results) |->
                           SearchResult(TextChunk(results[i].payload), results[i].score)]]

\* search_similar_chunks.  embedOk: whether the embedding service answers.
SearchSimilarChunks(q, cfg, policy_id, query, limit, embedOk) ==
    LET name == CollectionName(policy_id)
    IN IF ~collection_exists(q, name) THEN [raised |-> FALSE, ret |-> <<>>]
       ELSE IF ~embedOk THEN [raised |-> TRUE, error |-> EmbeddingFailure]
       ELSE LET results == QdrantSearch(q[name], Embed(query),
                                        LimitOr(limit, cfg.max_results),
                                        cfg.similarity_threshold)
            IN [raised |-> FALSE,
                ret |-> [i \in 1 .. Len(results) |->
                           SearchResult(TextChunk(results[i].payload), results[i].score)]]

\* The orders in which a scroll can return n points: Qdrant scrolls in the
\* order of the point ids, which are random uuid4 values.
ScrollOrders(n) ==
    {o \in [1 .. n -> 1 .. n] : \A i, j \in 1 .. n : o[i] = o[j] => i = j}

NumPoints(q, policy_id) ==
    IF collection_exists(q, CollectionName(policy_id))
    THEN Len(q[CollectionName(policy_id)]) ELSE 0

\* _get_all_chunks: every chunk of the collection, in scroll order.
GetAllChunks(q, policy_id, order) ==
    LET name == CollectionName(policy_id)
    IN IF ~collection_exists(q, name) THEN <<>>
       ELSE [i \in 1 .. Len(q[name]) |-> TextChunk(q[name][order[i]].payload)]

\* str.lower() on one word.
Lower(w) ==
    CASE w = "A" -> "a"
      [] w = "B" -> "b"
      [] w = "C" -> "c"
      [] OTHER   -> w

\* text.lower().split()
Tokenize(text) == [i \in DOMAIN text |-> Lower(text[i])]

Range(f) == {f[i] : i \in DOMAIN f}

----------------------------------------------------------------------------
\* BM25Okapi, as rank_bm25 computes it, with magnitudes in whole units and
\* signs exact.  For a term found in n of the N documents the raw idf is
\* log(N - n + 0.5) - log(n + 0.5), of the sign of N - 2n; a negative idf is
\* replaced by epsilon * average_idf, and the average of the raw idfs has the
\* sign of prod(2(N - n) + 1) - prod(2n + 1) over the vocabulary.  The term
\* weight tf * (k1 + 1) / (tf + k1 * (...)) is positive exactly when tf > 0
\* and is taken as tf.

Vocabulary(corpus) == UNION {Range(corpus[i]) : i \in DOMAIN corpus}

DocFreq(t, corpus) == Cardinality({i \in DOMAIN corpus : t \in Range(corpus[i])})

RECURSIVE OddsProduct(_, _, _)
OddsProduct(terms, corpus, absent) ==
    IF terms = {} THEN 1
    ELSE LET t == CHOOSE x \in terms : TRUE
             n == DocFreq(t, corpus)
         IN (IF absent THEN 2 * (Len(corpus) - n) + 1 ELSE 2 * n + 1)
            * OddsProduct(terms \ {t}, corpus, absent)

Sign(x) == IF x > 0 THEN 1 ELSE IF x < 0 THEN -1 ELSE 0

AverageIdfSign(corpus) ==
    Sign(OddsProduct(Vocabulary(corpus), corpus, TRUE)
         - OddsProduct(Vocabulary(corpus), corpus, FALSE))

Idf(t, corpus) ==
    IF t \notin Vocabulary(corpus) THEN 0
    ELSE LET raw == Len(corpus) - 2 * DocFreq(t, corpus)
         IN IF raw < 0 THEN AverageIdfSign(corpus) ELSE 4 * raw

TermFreq(t, doc) == Cardinality({j \in DOMAIN doc : doc[j] = t})

RECURSIVE Bm25Score(_, _, _)
Bm25Score(query_tokens, doc, corpus) ==
    IF query_tokens = <<>> THEN 0
    ELSE Idf(Head(query_tokens), corpus) * TermFreq(Head(query_tokens), doc)
         + Bm25Score(Tail(query_tokens), doc, corpus)

\* bm25.get_scores(tokenized_query): one raw score per document.
GetScores(corpus, query_tokens) ==
    [i \in DOMAIN corpus |-> Bm25Score(query_tokens, corpus[i], corpus)]

MaxOf(scores) == CHOOSE m \in Range(scores) : \A x \in Range(scores) : x <= m

\* "Normalize BM25 scores to 0-1 range"
NormalizeBm25(bm25_scores) ==
    IF MaxOf(bm25_scores) > 0
    THEN [i \in DOMAIN bm25_scores |-> Frac(bm25_scores[i], MaxOf(bm25_scores))]
    ELSE [i \in DOMAIN bm25_scores |-> Frac(bm25_scores[i], 1)]

\* dict.get(key, 0.0) on a dict built from a list of (key, value) in list
\* order: the last entry of a key wins.
LastIndex(keys, key) == CHOOSE i \in DOMAIN keys : keys[i] = key /\ \A j \in DOMAIN keys : keys[j] = key => j <= i

DictGet(keys, values, key) ==
    IF key \in Range(keys) THEN values[LastIndex(keys, key)] ELSE Zero

\* A faulty variant of CombinedScore: the BM25 side is dropped.
CombinedScoreSemanticOnly(bm25_weight, bm25_score, semantic_score) ==
    FMul(FSub(One, bm25_weight), semantic_score)

\* A faulty variant of CombinedScore: the two scores are added unweighted.
CombinedScoreUnweighted(bm25_weight, bm25_score, semantic_score) ==
    FAdd(bm25_score, semantic_score)

\* combined_score = (bm25_weight * bm25_score) + ((1 - bm25_weight) * semantic_score)
CombinedScore(bm25_weight, bm25_score, semantic_score) ==
    FAdd(FMul(bm25_weight, bm25_score), FMul(FSub(One, bm25_weight), semantic_score))

\* The values of combined_results: one entry per chunk id, in the order the
\* ids first occur in all_chunks, each holding the last chunk of that id.
CombinedResults(all_chunks, bm25_scores_norm, semantic_results, bm25_weight) ==
    LET ids == [i \in DOMAIN all_chunks |-> all_chunks[i].id]
        sem_ids == [i \in DOMAIN semantic_results |-> semantic_results[i].chunk.id]
        sem_scores == [i \in DOMAIN semantic_results |-> semantic_results[i].score]
        firsts == SelectSeq([i \in DOMAIN ids |-> i],
                            LAMBDA i : \A j \in 1 .. i - 1 : ids[j] # ids[i])
    IN [k \in DOMAIN firsts |->
          SearchResult(all_chunks[LastIndex(ids, ids[firsts[k]])],
                       CombinedScore(bm25_weight,
                                     DictGet(ids, bm25_scores_norm, ids[firsts[k]]),
                                     DictGet(sem_ids, sem_scores, ids[firsts[k]])))]

\* search_hybrid from the BM25 index on (lines 263-311): the ranking of
\* all_chunks against the semantic results, with the BM25 scores it computes.
HybridRank(cfg, all_chunks, semantic_results, query, max_results, bm25_weight) ==
    LET corpus == [i \in DOMAIN all_chunks |-> Tokenize(all_chunks[i].text)]
        bm25_scores == GetScores(corpus, Tokenize(query))
        bm25_scores_norm == NormalizeBm25(bm25_scores)
        sorted_results == SortDesc(CombinedResults(all_chunks, bm25_scores_norm,
                                                   semantic_results, bm25_weight))
        filtered_results ==
            Take(SelectSeq(sorted_results,
                           LAMBDA r : FLe(cfg.similarity_threshold, r.score)),
                 max_results)
    IN [ret |-> filtered_results, bm25_scores |-> bm25_scores,
        bm25_scores_norm |-> bm25_scores_norm]

\* search_hybrid, with the values of its local variables.
SearchHybrid(q, cfg, policy_id, query, limit, bm25_weight, embedOk, order) ==
    LET max_results == LimitOr(limit, cfg.max_results)
        all_chunks == GetAllChunks(q, policy_id, order)
        semantic == SearchSimilarChunks(q, cfg, policy_id, query,
                                        Some(max_results * 2), embedOk)
        rank == HybridRank(cfg, all_chunks, semantic.ret, query, max_results, bm25_weight)
    IN IF all_chunks = <<>> THEN [raised |-> FALSE, ret |-> <<>>]
       ELSE IF semantic.raised THEN semantic
       ELSE [raised |-> FALSE, ret |-> rank.ret,
             all_chunks |-> all_chunks, semantic_results |-> semantic.ret,
             bm25_scores |-> rank.bm25_scores,
             bm25_scores_norm |-> rank.bm25_scores_norm]

----------------------------------------------------------------------------
\* The outputs of reranker.compress_documents on n documents: the top_n most
\* relevant documents (all of them if there are fewer), each once, by
\* descending relevance score.
Rankings(n) ==
    {r \in [1 .. Min(TopN, n) -> [index : 1 .. n, relevance_score : RelevanceScores]] :
        /\ \A i, j \in DOMAIN r : r[i].index = r[j].index => i = j
        /\ \A i \in DOMAIN r : i > 1 => FLe(r[i].relevance_score, r[i - 1].relevance_score)}

\* Step 4 of search_with_rerank: each reranked document is mapped to the first
\* candidate whose text equals its page_content.
MapReranked(reranked, semantic_candidates) ==
    LET matches(doc) == {i \in DOMAIN semantic_candidates :
                           semantic_candidates[i].chunk.text = doc.page_content}
        first(doc) == CHOOSE i \in matches(doc) : \A j \in matches(doc) : i <= j
        found == SelectSeq(reranked, LAMBDA doc : matches(doc) # {})
    IN [k \in DOMAIN found |->
          SearchResult(semantic_candidates[first(found[k])].chunk,
                       found[k].relevance_score)]

\* search_with_rerank from the documents on (lines 348-375): the reranker's
\* documents and the results they are mapped to.
RerankMap(semantic_candidates, ranking, max_results) ==
    LET documents == [i \in DOMAIN semantic_candidates |->
                        [page_content |-> semantic_candidates[i].chunk.text]]
        reranked == [i \in DOMAIN ranking |->
                       [page_content |-> documents[ranking[i].index].page_content,
                        relevance_score |-> ranking[i].relevance_score]]
    IN [ret |-> MapReranked(Take(reranked, max_results), semantic_candidates),
        reranked |-> reranked]

\* search_with_rerank, with the values of its local variables.  rerankOk:
\* whether the reranking service answers; ranking: its answer.
SearchWithRerank(q, cfg, policy_id, query, limit, rerank_top_k, embedOk, rerankOk, ranking) ==
    LET max_results == LimitOr(limit, cfg.max_results)
        semantic == SearchSimilarChunks(q, cfg, policy_id, query,
                                        Some(rerank_top_k), embedOk)
        map == RerankMap(semantic.ret, ranking, max_results)
    IN IF semantic.raised THEN semantic
       ELSE IF semantic.ret = <<>> THEN [raised |-> FALSE, ret |-> <<>>,
                                         semantic_candidates |-> <<>>]
       ELSE IF ~rerankOk THEN [raised |-> TRUE, error |-> RerankerFailure,
                              semantic_candidates |-> semantic.ret]
       ELSE [raised |-> FALSE, ret |-> map.ret,
             semantic_candidates |-> semantic.ret, reranked |-> map.reranked,
             ranking |-> ranking]

----------------------------------------------------------------------------
\* VectorDatabase (fullstack-rag-pdf-chat-app/aimakerspace/vectordatabase.py)

\* The text chunks used as keys.
DbKeys == {<<"text", i>> : i \in 1 .. MaxKeys}

\* Embedding vectors, the all-zero vector among them.
DbVectors == { <<0, 0>>, <<1, 0>>, <<3, 4>> }

\* The values of k passed to search.
Ks == -1 .. MaxKeys + 1

\* A faulty variant of cosine_similarity: the norms are not tested, and the
\* quotient of an all-zero vector has denominator 0.
CosineNoZeroCheck(vector_a, vector_b) ==
    Frac(Dot(vector_a, vector_b), Norm(vector_a) * Norm(vector_b))

\* cosine_similarity: 0.0 when a norm is 0, else dot / (norm_a * norm_b).
cosine_similarity(vector_a, vector_b) ==
    LET norm_a == Norm(vector_a)
        norm_b == Norm(vector_b)
    IN IF norm_a = 0 \/ norm_b = 0 THEN Zero
       ELSE Frac(Dot(vector_a, vector_b), norm_a * norm_b)

\* self.vectors[key] = vector on an insertion-ordered dict: a known key keeps
\* its place and takes the new vector, a new key goes to the end.
DictSet(items, key, vector) ==
    IF \E i \in DOMAIN items : items[i].key = key
    THEN [i \in DOMAIN items |->
            IF items[i].key = key THEN [key |-> key, vector |-> vector] ELSE items[i]]
    ELSE Append(items, [key |-> key, vector |-> vector])

\* A faulty variant of Search: the items are cut to k before they are sorted.
SearchCutFirst(items, query_vector, k) ==
    IF k <= 0 THEN [raised |-> TRUE, error |-> "ValueError"]
    ELSE LET scores == [i \in DOMAIN items |->
                          [key |-> items[i].key,
                           score |-> cosine_similarity(query_vector, items[i].vector)]]
         IN [raised |-> FALSE, ret |-> SortDesc(Take(scores, k))]

\* VectorDatabase.search: ValueError for k <= 0, else the (key, score) pairs
\* sorted by descending score (list.sort is stable), cut to k.
Search(items, query_vector, k) ==
    IF k <= 0 THEN [raised |-> TRUE, error |-> "ValueError"]
    ELSE LET scores == [i \in DOMAIN items |->
                          [key |-> items[i].key,
                           score |-> cosine_similarity(query_vector, items[i].vector)]]
         IN [raised |-> FALSE, ret |-> Take(SortDesc(scores), k)]

DbIdle == [op |-> "idle"]

\* No request is being served.
NoRequest == [pc |-> "idle"]

\* No call is running step by step.
NotCalled == [pc |-> "idle"]

\* No CharacterTextSplitter has been constructed.
NoSplitter == [state |-> "none"]

\* chunk_text has not been called.
NotChunked == [op |-> "idle"]

\* No PolicyService call has run.
NoService == [op |-> "idle"]

\* No helpfulness agent graph has been created.
NoAgent == [pc |-> "none"]

\* The chat app after start-up: vector_database = None, embedding_model = None.
NoDocument == [vector_database |-> << >>, embedding_model |-> << >>]

\* No chat app request is in flight.
NoRequests == [chat |-> [pc |-> "idle"], upload |-> [pc |-> "idle"], cleared |-> FALSE]

\* PolicyService, the helpfulness agent and the chat app are at rest.
AppsQuiet ==
    /\ files = {}
    /\ issued = {}
    /\ service = NoService
    /\ helpful = NoAgent
    /\ rag = NoDocument
    /\ requests = NoRequests

\* No text is being split.
TextQuiet ==
    /\ splitter = NoSplitter
    /\ chunker = NotChunked

\* Everything outside the VectorStore calls of Spec is at rest.
Quiet ==
    /\ ask = NoRequest
    /\ reader = NotCalled
    /\ writer = NotCalled
    /\ TextQuiet
    /\ AppsQuiet

\* VectorDatabase(): no vectors.
DbInit ==
    /\ vectors = << >>
    /\ db_last = DbIdle

insert ==
    /\ \E key \in DbKeys, vector \in DbVectors :
          /\ vectors' = DictSet(vectors, key, vector)
          /\ db_last' = [op |-> "insert", key |-> key, vector |-> vector]
    /\ UNCHANGED notDb

search ==
    /\ \E query_vector \in DbVectors, k \in Ks :
          db_last' = [op |-> "search", query_vector |-> query_vector, k |-> k] @@
                     Search(vectors, query_vector, k)
    /\ UNCHANGED vectors
    /\ UNCHANGED notDb

\* A direct call of the module's function cosine_similarity.
similarity ==
    /\ \E vector_a, vector_b \in DbVectors :
          db_last' = [op |-> "cosine_similarity", vector_a |-> vector_a,
                      vector_b |-> vector_b,
                      ret |-> cosine_similarity(vector_a, vector_b)]
    /\ UNCHANGED vectors
    /\ UNCHANGED notDb

\* No VectorStore is built where only the VectorDatabase runs.
StoreUnused ==
    /\ config = << >>
    /\ qdrant = << >>
    /\ last = Idle
    /\ prev = NoDelete

InitDb == StoreUnused /\ DbInit /\ Quiet

NextDb ==
    \/ insert
    \/ search
    \/ similarity

SpecDb == InitDb /\ [][NextDb]_vars

----------------------------------------------------------------------------
\* VectorStore: the state machine

PreOf(policy_id) ==
    LET name == CollectionName(policy_id)
    IN [existed |-> collection_exists(qdrant, name),
        count |-> IF collection_exists(qdrant, name) THEN Len(qdrant[name]) ELSE 0,
        points |-> IF collection_exists(qdrant, name) THEN qdrant[name] ELSE << >>]

----------------------------------------------------------------------------
Init ==
    /\ config \in [max_results : 1 .. MaxLimit, similarity_threshold : Thresholds]
    /\ qdrant = << >>
    /\ last = Idle
    /\ prev = NoDelete
    /\ DbInit
    /\ Quiet

\* A call record: what every operation leaves in last.
Call(op, policy_id) ==
    [op |-> op, policy_id |-> policy_id, pre |-> PreOf(policy_id), after |-> prev]

create_policy_collection ==
    /\ last = Idle
    /\ \E policy_id \in PolicyIds :
          /\ qdrant' = CreatePolicyCollection(qdrant, policy_id)
          /\ last' = Call("create_policy_collection", policy_id) @@
                      [raised |-> FALSE, ret |-> CollectionName(policy_id)]
    /\ UNCHANGED <<config, prev>>
    /\ UNCHANGED notStore

\* A faulty variant of DeletePolicy: True is returned whether or not a collection existed.
DeletePolicyAlwaysTrue(q, policy_id) ==
    LET name == CollectionName(policy_id)
    IN IF collection_exists(q, name)
       THEN [qdrant |-> delete_collection(q, name), ret |-> TRUE]
       ELSE [qdrant |-> q, ret |-> TRUE]

\* delete_policy: the Qdrant state after the call, and the value returned.
DeletePolicy(q, policy_id) ==
    LET name == CollectionName(policy_id)
    IN IF collection_exists(q, name)
       THEN [qdrant |-> delete_collection(q, name), ret |-> TRUE]
       ELSE [qdrant |-> q, ret |-> FALSE]

delete_policy ==
    /\ last = Idle
    /\ \E policy_id \in PolicyIds :
          /\ qdrant' = DeletePolicy(qdrant, policy_id).qdrant
          /\ last' = Call("delete_policy", policy_id) @@
                      [raised |-> FALSE, ret |-> DeletePolicy(qdrant, policy_id).ret]
    /\ UNCHANGED <<config, prev>>
    /\ UNCHANGED notStore

\* A faulty variant of StoreChunks: the points are upserted into the collection as it
\* is, which is created only when missing.
StoreChunksAppend(q, policy_id, chunks, failAt, emptyOk) ==
    LET name == CollectionName(policy_id)
        q1 == IF collection_exists(q, name) THEN q ELSE create_collection(q, name)
        points == Points(chunks, policy_id, q1[name])
    IN IF failAt > 0 \/ (chunks = <<>> /\ ~emptyOk)
       THEN [qdrant |-> q1, raised |-> TRUE]
       ELSE [qdrant |-> [q1 EXCEPT ![name] = Upsert(q1[name], points)],
             raised |-> FALSE,
             ret |-> [collection_name |-> name, points_stored |-> Len(points),
                      policy_id |-> policy_id]]

\* store_chunks: the Qdrant state after the call and its outcome.  failAt = i > 0:
\* the embedding service fails on the i-th chunk; emptyOk: whether the Qdrant
\* server accepts an upsert of no points.
StoreChunks(q, policy_id, chunks, failAt, emptyOk) ==
    LET name == CollectionName(policy_id)
        q1 == CreatePolicyCollection(q, policy_id)
        points == Points(chunks, policy_id, q1[name])
    IN IF failAt > 0 \/ (chunks = <<>> /\ ~emptyOk)
       THEN [qdrant |-> q1, raised |-> TRUE]
       ELSE [qdrant |-> [q1 EXCEPT ![name] = Upsert(q1[name], points)],
             raised |-> FALSE,
             ret |-> [collection_name |-> name, points_stored |-> Len(points),
                      policy_id |-> policy_id]]

store_chunks ==
    /\ last = Idle
    /\ \E policy_id \in PolicyIds, chunks \in ChunkLists, emptyOk \in BOOLEAN :
          \E failAt \in 0 .. Len(chunks) :
             LET out == StoreChunks(qdrant, policy_id, chunks, failAt, emptyOk)
             IN /\ qdrant' = out.qdrant
                /\ last' = Call("store_chunks", policy_id) @@ [chunks |-> chunks] @@
                            [f \in DOMAIN out \ {"qdrant"} |-> out[f]]
    /\ UNCHANGED <<config, prev>>
    /\ UNCHANGED notStore

search_similar_chunks ==
    /\ last = Idle
    /\ \E policy_id \in PolicyIds, query \in Queries, limit \in Limits,
          embedOk \in BOOLEAN :
          last' = Call("search_similar_chunks", policy_id) @@
                  [query |-> query, limit |-> limit] @@
                  SearchSimilarChunks(qdrant, config, policy_id, query, limit, embedOk)
    /\ UNCHANGED <<config, qdrant, prev>>
    /\ UNCHANGED notStore

\* order: the order in which Qdrant's scroll hands out the points.
search_hybrid ==
    /\ last = Idle
    /\ \E policy_id \in PolicyIds, query \in Queries, limit \in Limits,
          bm25_weight \in Weights, embedOk \in BOOLEAN :
          \E order \in ScrollOrders(NumPoints(qdrant, policy_id)) :
             last' = Call("search_hybrid", policy_id) @@
                     [query |-> query, limit |-> limit, bm25_weight |-> bm25_weight] @@
                     SearchHybrid(qdrant, config, policy_id, query, limit, bm25_weight,
                                  embedOk, order)
    /\ UNCHANGED <<config, qdrant, prev>>
    /\ UNCHANGED notStore

\* The number of documents search_with_rerank hands to the reranker.
NumCandidates(policy_id, query, rerank_top_k) ==
    Len(SearchSimilarChunks(qdrant, config, policy_id, query,
                            Some(rerank_top_k), TRUE).ret)

\* Whether a search_with_rerank call reaches the reranker and the reranker
\* raises: it is called when the semantic search returned candidates.
RerankerRaises(policy_id, query, rerank_top_k, embedOk, rerankOk) ==
    /\ embedOk
    /\ NumCandidates(policy_id, query, rerank_top_k) > 0
    /\ ~rerankOk

\* ranking: the reranker's answer for the documents it is handed.
search_with_rerank ==
    /\ last = Idle
    /\ \E policy_id \in PolicyIds, query \in Queries, limit \in Limits,
          rerank_top_k \in RerankTopKs, embedOk, rerankOk \in BOOLEAN :
          \E ranking \in Rankings(NumCandidates(policy_id, query, rerank_top_k)) :
             last' = Call("search_with_rerank", policy_id) @@
                     [query |-> query, limit |-> limit, rerank_top_k |-> rerank_top_k] @@
                     SearchWithRerank(qdrant, config, policy_id, query, limit,
                                      rerank_top_k, embedOk, rerankOk, ranking)
    /\ UNCHANGED <<config, qdrant, prev>>
    /\ UNCHANGED notStore

\* The call returns to its caller, which goes on to its next call.
Return ==
    /\ last # Idle
    /\ last' = Idle
    /\ prev' = IF last.op = "delete_policy"
               THEN [op |-> last.op, policy_id |-> last.policy_id, ret |-> last.ret]
               ELSE NoDelete
    /\ UNCHANGED <<config, qdrant>>
    /\ UNCHANGED notStore

Next ==
    \/ create_policy_collection
    \/ delete_policy
    \/ store_chunks
    \/ search_similar_chunks
    \/ search_hybrid
    \/ search_with_rerank
    \/ Return

Spec == Init /\ [][Next]_vars

----------------------------------------------------------------------------
\* The ask route: POST /policies/{policy_id}/ask -> PolicyService.answer_question
\* -> agent_graph (classify -> policy_agent | web_agent -> END) -> the route's
\* response.  A node that raises ends the graph run with that exception.

RetrievalStrategies == {"semantic", "hybrid", "rerank"}

NoError == "none"

\* policy_id of a request that names no policy: answer_question and the graph
\* take None ("Can be None for general questions"), the route always has one.
NoPolicy == "None"

\* The Qdrant states a request can meet: no collection, or the collection a
\* store_chunks call has left.
StoredStates ==
    { << >> } \cup
    { StoreChunks(<< >>, p, chunks, 0, TRUE).qdrant : p \in PolicyIds, chunks \in ChunkLists }

RECURSIVE SumScores(_)
SumScores(results) ==
    IF results = <<>> THEN Zero ELSE FAdd(Head(results).score, SumScores(Tail(results)))

\* A faulty variant of CalculateConfidence: the scores are summed and not
\* divided by their number.
CalculateConfidenceSum(search_results) ==
    IF search_results = <<>> THEN Zero ELSE SumScores(search_results)

\* _calculate_confidence: the mean of the scores, 0.0 for no results.
CalculateConfidence(search_results) ==
    IF search_results = <<>> THEN Zero
    ELSE LET total == SumScores(search_results)
         IN Frac(total.n, total.d * Len(search_results))

\* SearchResult.to_citation_dict: the snippet is the first 200 characters and
\* "..." for a longer text.
SnippetLength == 200

ToCitationDict(result) ==
    [chunk_id |-> result.chunk.id,
     page_number |-> result.chunk.page,
     text_snippet |-> IF Len(result.chunk.text) > SnippetLength
                      THEN SubSeq(result.chunk.text, 1, SnippetLength) \o <<"...">>
                      ELSE result.chunk.text,
     relevance_score |-> result.score]

\* A faulty variant of CreateCitations: the citations come in the reverse
\* order of the search results.
CreateCitationsReversed(search_results) ==
    [i \in DOMAIN search_results |->
        ToCitationDict(search_results[Len(search_results) + 1 - i])]

\* _create_citations: one Citation per search result, in their order.
CreateCitations(search_results) ==
    [i \in DOMAIN search_results |-> ToCitationDict(search_results[i])]

\* A faulty variant of GenerateAnswer: the chain is invoked whatever the
\* search results, and its answer is returned.
GenerateAnswerUnchecked(search_results, policy_id, llmOk, has_info) ==
    IF ~llmOk THEN [raised |-> TRUE, error |-> "AnswerGenerationFailedError",
                    chain_invoked |-> TRUE]
    ELSE [raised |-> FALSE, chain_invoked |-> TRUE,
          ret |-> [status |-> "SUCCESS",
                   has_info |-> has_info,
                   citations |-> IF has_info THEN CreateCitations(search_results) ELSE <<>>,
                   confidence |-> CalculateConfidence(search_results),
                   metadata |-> [policy_id |-> policy_id,
                                 result_count |-> Len(search_results)]]]

\* AnswerGenerator.generate_answer.  llmOk: whether the chain's LLM call
\* answers; has_info: whether the answer is free of the "not found" phrases.
GenerateAnswer(search_results, policy_id, llmOk, has_info) ==
    IF search_results = <<>>
    THEN [raised |-> TRUE, error |-> "NoRelevantChunksError", chain_invoked |-> FALSE]
    ELSE IF ~llmOk THEN [raised |-> TRUE, error |-> "AnswerGenerationFailedError",
                         chain_invoked |-> TRUE]
    ELSE [raised |-> FALSE, chain_invoked |-> TRUE,
          ret |-> [status |-> "SUCCESS",
                   has_info |-> has_info,
                   citations |-> IF has_info THEN CreateCitations(search_results) ELSE <<>>,
                   confidence |-> CalculateConfidence(search_results),
                   metadata |-> [policy_id |-> policy_id,
                                 result_count |-> Len(search_results)]]]

\* A faulty variant of Retrieve: a failing reranker is answered with the
\* semantic candidates.
RetrieveWithFallback(q, cfg, policy_id, question, retrieval_strategy, embedOk, order, rerankOk, ranking) ==
    IF retrieval_strategy = "hybrid"
    THEN SearchHybrid(q, cfg, policy_id, question, NoLimit, Frac(1, 2), embedOk, order)
    ELSE IF retrieval_strategy = "rerank"
    THEN LET out == SearchWithRerank(q, cfg, policy_id, question, NoLimit,
                                     DefaultRerankTopK, embedOk, rerankOk, ranking)
         IN IF out.raised /\ out.error = RerankerFailure
            THEN [raised |-> FALSE, ret |-> out.semantic_candidates,
                  semantic_candidates |-> out.semantic_candidates]
            ELSE out
    ELSE SearchSimilarChunks(q, cfg, policy_id, question, NoLimit, embedOk)

\* The retrieval of policy_agent_node: the search of the configured strategy,
\* called with policy_id and query only.
Retrieve(q, cfg, policy_id, question, retrieval_strategy, embedOk, order, rerankOk, ranking) ==
    IF retrieval_strategy = "hybrid"
    THEN SearchHybrid(q, cfg, policy_id, question, NoLimit, Frac(1, 2), embedOk, order)
    ELSE IF retrieval_strategy = "rerank"
    THEN SearchWithRerank(q, cfg, policy_id, question, NoLimit, DefaultRerankTopK,
                          embedOk, rerankOk, ranking)
    ELSE SearchSimilarChunks(q, cfg, policy_id, question, NoLimit, embedOk)

\* A faulty variant of Respond: every exception is answered by the generic
\* handler.
RespondGeneric(error, answer_result) ==
    IF error = NoError
    THEN [status_code |-> 200,
          question_type |-> IF "question_type" \in DOMAIN answer_result.metadata
                               /\ answer_result.metadata.question_type = "general"
                            THEN "GENERAL_INSURANCE" ELSE "POLICY_SPECIFIC",
          citations |-> answer_result.citations,
          confidence |-> answer_result.confidence]
    ELSE [status_code |-> 500, error |-> "internal_server_error"]

\* The HTTP response ask_question builds from the result or the exception of
\* answer_question.
Respond(error, answer_result) ==
    IF error = NoError
    THEN [status_code |-> 200,
          question_type |-> IF "question_type" \in DOMAIN answer_result.metadata
                               /\ answer_result.metadata.question_type = "general"
                            THEN "GENERAL_INSURANCE" ELSE "POLICY_SPECIFIC",
          citations |-> answer_result.citations,
          confidence |-> answer_result.confidence]
    ELSE IF error = "ValueError" THEN [status_code |-> 400]
    ELSE IF error = "NoRelevantChunksError"
    THEN [status_code |-> 404, error |-> "no_relevant_chunks_found"]
    ELSE IF error = "AnswerGenerationFailedError"
    THEN [status_code |-> 500, error |-> "answer_generation_failed"]
    ELSE [status_code |-> 500, error |-> "internal_server_error"]

InitAsk ==
    /\ config \in [max_results : 1 .. MaxLimit, similarity_threshold : Thresholds]
    /\ qdrant \in StoredStates
    /\ last = Idle
    /\ prev = NoDelete
    /\ DbInit
    /\ ask = NoRequest
    /\ reader = NotCalled
    /\ writer = NotCalled
    /\ TextQuiet
    /\ AppsQuiet

\* A node or the generator raises: the graph run ends and the exception
\* reaches ask_question's handlers.
Raise(error) == [ask EXCEPT !.pc = "respond", !.error = error]

\* ask_question up to the graph's entry: answer_question builds the initial
\* AgentState.
\* answer_result of the initial AgentState: no result yet.
NoAnswerResult == [status |-> "None"]

ask_question ==
    /\ ask.pc \in {"idle", "done"}
    /\ \E policy_id \in PolicyIds \cup {NoPolicy}, question \in Queries,
          retrieval_strategy \in RetrievalStrategies :
          ask' = [pc |-> "classify",
                  nodes |-> << >>,
                  state |-> [question |-> question, policy_id |-> policy_id,
                             question_type |-> "None", answer_result |-> NoAnswerResult,
                             retrieval_strategy |-> retrieval_strategy],
                  search |-> [raised |-> FALSE, ret |-> <<>>],
                  searched |-> FALSE,
                  reranker_raised |-> FALSE,
                  chain_invoked |-> FALSE,
                  error |-> NoError,
                  response |-> "None"]
    /\ UNCHANGED <<config, qdrant>>
    /\ UNCHANGED <<last, prev, dbVars, raceVars, textVars, appVars>>

\* QuestionClassifier.classify: without a policy the question is general,
\* with one the LLM's answer decides.
QuestionTypes(policy_id) ==
    IF policy_id = NoPolicy THEN {"GENERAL_INSURANCE"}
    ELSE {"POLICY_SPECIFIC", "GENERAL_INSURANCE"}

\* classify_node.  is_valid: the guardrail's verdict (True when its LLM call
\* fails); question_type: the classifier's answer.
classify_node ==
    /\ ask.pc = "classify"
    /\ \E is_valid \in BOOLEAN, question_type \in QuestionTypes(ask.state.policy_id) :
          ask' = IF ~is_valid
                 THEN [Raise("ValueError") EXCEPT !.nodes = Append(ask.nodes, "classify")]
                 ELSE [ask EXCEPT !.pc = "route", !.state.question_type = question_type,
                                  !.nodes = Append(ask.nodes, "classify")]
    /\ UNCHANGED <<config, qdrant>>
    /\ UNCHANGED <<last, prev, dbVars, raceVars, textVars, appVars>>

\* A faulty variant of RouteQuestion: every question goes to the policy agent.
RouteQuestionAlwaysPolicy(question_type) == "policy_agent"

\* route_question: the name of the node that runs after classify.
RouteQuestion(question_type) ==
    IF question_type = "POLICY_SPECIFIC" THEN "policy_agent" ELSE "web_agent"

route_question ==
    /\ ask.pc = "route"
    /\ ask' = [ask EXCEPT !.pc = RouteQuestion(ask.state.question_type)]
    /\ UNCHANGED <<config, qdrant>>
    /\ UNCHANGED <<last, prev, dbVars, raceVars, textVars, appVars>>

\* policy_agent_node up to the retrieval's result.
policy_agent_node ==
    /\ ask.pc = "policy_agent"
    /\ \E embedOk, rerankOk \in BOOLEAN :
       \E order \in ScrollOrders(NumPoints(qdrant, ask.state.policy_id)) :
       \E ranking \in Rankings(NumCandidates(ask.state.policy_id, ask.state.question,
                                             DefaultRerankTopK)) :
          LET out == Retrieve(qdrant, config, ask.state.policy_id, ask.state.question,
                              ask.state.retrieval_strategy, embedOk, order,
                              rerankOk, ranking)
              failed == /\ ask.state.retrieval_strategy = "rerank"
                        /\ RerankerRaises(ask.state.policy_id, ask.state.question,
                                          DefaultRerankTopK, embedOk, rerankOk)
          IN ask' = IF out.raised
                    THEN [Raise(out.error) EXCEPT !.search = out, !.searched = TRUE,
                                                  !.reranker_raised = failed,
                                                  !.nodes = Append(ask.nodes, "policy_agent")]
                    ELSE [ask EXCEPT !.pc = "generate_answer", !.search = out,
                                     !.searched = TRUE, !.reranker_raised = failed,
                                     !.nodes = Append(ask.nodes, "policy_agent")]
    /\ UNCHANGED <<config, qdrant>>
    /\ UNCHANGED <<last, prev, dbVars, raceVars, textVars, appVars>>

\* policy_agent_node from the AnswerContext on: generate_answer and the
\* node's return.
generate_answer ==
    /\ ask.pc = "generate_answer"
    /\ \E llmOk, has_info \in BOOLEAN :
          LET out == GenerateAnswer(ask.search.ret, ask.state.policy_id, llmOk, has_info)
          IN ask' = IF out.raised
                    THEN [Raise(out.error) EXCEPT !.chain_invoked = out.chain_invoked]
                    ELSE [ask EXCEPT !.pc = "respond",
                                     !.chain_invoked = out.chain_invoked,
                                     !.state.answer_result = out.ret]
    /\ UNCHANGED <<config, qdrant>>
    /\ UNCHANGED <<last, prev, dbVars, raceVars, textVars, appVars>>

\* web_agent_node: WebSearchAgent.answer.  found: whether the web search has
\* results (a failing search has none); llmOk: whether the LLM answers.  With
\* no results the code calls AnswerResult.fail, which the class does not
\* define: the AttributeError is wrapped like every other exception.
web_agent_node ==
    /\ ask.pc = "web_agent"
    /\ \E found, llmOk \in BOOLEAN :
          ask' = IF ~found \/ ~llmOk
                 THEN [Raise("AnswerGenerationFailedError")
                          EXCEPT !.nodes = Append(ask.nodes, "web_agent")]
                 ELSE [ask EXCEPT !.pc = "respond",
                                  !.nodes = Append(ask.nodes, "web_agent"),
                                  !.state.answer_result =
                                      [status |-> "SUCCESS", has_info |-> TRUE,
                                       citations |-> <<>>,
                                       confidence |-> Frac(8, 10),
                                       metadata |-> [question_type |-> "general"]]]
    /\ UNCHANGED <<config, qdrant>>
    /\ UNCHANGED <<last, prev, dbVars, raceVars, textVars, appVars>>

\* answer_question's return and ask_question's response or exception handler.
respond ==
    /\ ask.pc = "respond"
    /\ ask' = [ask EXCEPT !.pc = "done",
                          !.response = Respond(ask.error, ask.state.answer_result)]
    /\ UNCHANGED <<config, qdrant>>
    /\ UNCHANGED <<last, prev, dbVars, raceVars, textVars, appVars>>

NextAsk ==
    \/ ask_question
    \/ classify_node
    \/ route_question
    \/ policy_agent_node
    \/ generate_answer
    \/ web_agent_node
    \/ respond

SpecAsk == InitAsk /\ [][NextAsk]_vars

----------------------------------------------------------------------------
\* A search and a writing call on the same policy, interleaved at their
\* Qdrant calls.  Each Qdrant call is one step; what a call does between two
\* of them (embedding, BM25, reranking) goes with the step before.  The
\* embedding service and the reranker answer.  Qdrant's search, scroll and
\* upsert raise on a collection that does not exist.

SearchOpNames == {"search_similar_chunks", "search_hybrid", "search_with_rerank"}

WriteOpNames == {"create_policy_collection", "store_chunks", "delete_policy"}

QdrantNotFound == "UnexpectedResponse: 404 collection not found"

\* The one policy both calls address.
RacePolicy == CHOOSE p \in PolicyIds : TRUE

RaceName == CollectionName(RacePolicy)

\* The chunks a collection holds, in stored order; none for no collection.
ChunksOf(q) ==
    IF collection_exists(q, RaceName)
    THEN [i \in DOMAIN q[RaceName] |-> TextChunk(q[RaceName][i].payload)]
    ELSE << >>

InitRace ==
    /\ config \in [max_results : {MaxLimit}, similarity_threshold : Thresholds]
    /\ qdrant \in StoredStates
    /\ last = Idle
    /\ prev = NoDelete
    /\ DbInit
    /\ ask = NoRequest
    /\ reader = NotCalled
    /\ writer = NotCalled
    /\ TextQuiet
    /\ AppsQuiet

ReaderDone(ret) == [reader EXCEPT !.pc = "done", !.ret = ret]

ReaderRaised(error) == [reader EXCEPT !.pc = "done", !.raised = TRUE, !.error = error]

\* The search is called: search_hybrid starts in _get_all_chunks, the other
\* two in search_similar_chunks.
search_call ==
    /\ reader.pc = "idle"
    /\ \E op \in SearchOpNames, query \in Queries :
          reader' = [op |-> op, query |-> query,
                     pc |-> IF op = "search_hybrid" THEN "all_exists" ELSE "exists",
                     all_chunks |-> << >>, semantic |-> << >>,
                     raised |-> FALSE, error |-> NoError, ret |-> << >>]
    /\ UNCHANGED <<qdrant, writer>>
    /\ UNCHANGED notRace

\* _get_all_chunks, line 187: collection_exists; without a collection there
\* are no chunks and search_hybrid returns [].
get_all_chunks_exists ==
    /\ reader.pc = "all_exists"
    /\ reader' = IF collection_exists(qdrant, RaceName)
                 THEN [reader EXCEPT !.pc = "scroll"]
                 ELSE ReaderDone(<< >>)
    /\ UNCHANGED <<qdrant, writer>>
    /\ UNCHANGED notRace

\* _get_all_chunks, line 195: scroll (one batch holds every point), then
\* search_hybrid's test of all_chunks.
get_all_chunks_scroll ==
    /\ reader.pc = "scroll"
    /\ \E order \in ScrollOrders(NumPoints(qdrant, RacePolicy)) :
          reader' = IF ~collection_exists(qdrant, RaceName)
                    THEN ReaderRaised(QdrantNotFound)
                    ELSE IF GetAllChunks(qdrant, RacePolicy, order) = << >>
                    THEN ReaderDone(<< >>)
                    ELSE [reader EXCEPT !.pc = "exists",
                             !.all_chunks = GetAllChunks(qdrant, RacePolicy, order)]
    /\ UNCHANGED <<qdrant, writer>>
    /\ UNCHANGED notRace

\* What the search leaves for after its semantic results: search_hybrid ranks,
\* search_with_rerank reranks what was found, search_similar_chunks returns.
AfterSemantic(results) ==
    IF reader.op = "search_hybrid"
    THEN [reader EXCEPT !.pc = "rank", !.semantic = results]
    ELSE IF reader.op = "search_with_rerank" /\ results # << >>
    THEN [reader EXCEPT !.pc = "rerank", !.semantic = results]
    ELSE [reader EXCEPT !.pc = "done", !.semantic = results, !.ret = results]

\* search_similar_chunks, line 138: collection_exists; without a collection
\* the semantic results are [].
search_exists ==
    /\ reader.pc = "exists"
    /\ reader' = IF collection_exists(qdrant, RaceName)
                 THEN [reader EXCEPT !.pc = "search"]
                 ELSE AfterSemantic(<< >>)
    /\ UNCHANGED <<qdrant, writer>>
    /\ UNCHANGED notRace

\* The limit search_similar_chunks is called with by the running search.
ReaderLimit ==
    IF reader.op = "search_hybrid" THEN Some(2 * LimitOr(NoLimit, config.max_results))
    ELSE IF reader.op = "search_with_rerank" THEN Some(DefaultRerankTopK)
    ELSE NoLimit

\* search_similar_chunks, line 145: qdrant_client.search.
search_search ==
    /\ reader.pc = "search"
    /\ reader' = IF ~collection_exists(qdrant, RaceName)
                 THEN ReaderRaised(QdrantNotFound)
                 ELSE AfterSemantic(SearchSimilarChunks(qdrant, config, RacePolicy,
                                                        reader.query, ReaderLimit, TRUE).ret)
    /\ UNCHANGED <<qdrant, writer>>
    /\ UNCHANGED notRace

\* search_hybrid, lines 263-311.
hybrid_rank ==
    /\ reader.pc = "rank"
    /\ reader' = ReaderDone(HybridRank(config, reader.all_chunks, reader.semantic,
                                       reader.query, LimitOr(NoLimit, config.max_results),
                                       Frac(1, 2)).ret)
    /\ UNCHANGED <<qdrant, writer>>
    /\ UNCHANGED notRace

\* search_with_rerank, lines 348-375.
rerank_map ==
    /\ reader.pc = "rerank"
    /\ \E ranking \in Rankings(Len(reader.semantic)) :
          reader' = ReaderDone(RerankMap(reader.semantic, ranking,
                                         LimitOr(NoLimit, config.max_results)).ret)
    /\ UNCHANGED <<qdrant, writer>>
    /\ UNCHANGED notRace

\* The writing call is made; old is the collection's contents before it.
writer_call ==
    /\ writer.pc = "idle"
    /\ \E op \in WriteOpNames, chunks \in ChunkLists :
          /\ op # "store_chunks" => chunks = << >>
          /\ writer' = [op |-> op, chunks |-> chunks, pc |-> "exists",
                        existed |-> FALSE, old |-> ChunksOf(qdrant)]
    /\ UNCHANGED <<qdrant, reader>>
    /\ UNCHANGED notRace

\* collection_exists in create_policy_collection (line 47) and delete_policy.
writer_exists ==
    /\ writer.pc = "exists"
    /\ writer' = [writer EXCEPT
                    !.existed = collection_exists(qdrant, RaceName),
                    !.pc = IF collection_exists(qdrant, RaceName) THEN "delete"
                           ELSE IF writer.op = "delete_policy" THEN "done" ELSE "create"]
    /\ UNCHANGED <<qdrant, reader>>
    /\ UNCHANGED notRace

\* delete_collection.
writer_delete ==
    /\ writer.pc = "delete"
    /\ qdrant' = IF collection_exists(qdrant, RaceName)
                 THEN delete_collection(qdrant, RaceName) ELSE qdrant
    /\ writer' = [writer EXCEPT !.pc = IF writer.op = "delete_policy" THEN "done"
                                       ELSE "create"]
    /\ UNCHANGED reader
    /\ UNCHANGED notRace

\* create_collection, and for store_chunks the embedding of the chunks.
writer_create ==
    /\ writer.pc = "create"
    /\ qdrant' = create_collection(qdrant, RaceName)
    /\ writer' = [writer EXCEPT !.pc = IF writer.op = "store_chunks" THEN "upsert"
                                       ELSE "done"]
    /\ UNCHANGED reader
    /\ UNCHANGED notRace

\* store_chunks, line 113: one upsert of all the points.
writer_upsert ==
    /\ writer.pc = "upsert"
    /\ qdrant' = [qdrant EXCEPT ![RaceName] =
                    Upsert(qdrant[RaceName],
                           Points(writer.chunks, RacePolicy, qdrant[RaceName]))]
    /\ writer' = [writer EXCEPT !.pc = "done"]
    /\ UNCHANGED reader
    /\ UNCHANGED notRace

NextRace ==
    \/ search_call
    \/ get_all_chunks_exists
    \/ get_all_chunks_scroll
    \/ search_exists
    \/ search_search
    \/ hybrid_rank
    \/ rerank_map
    \/ writer_call
    \/ writer_exists
    \/ writer_delete
    \/ writer_create
    \/ writer_upsert

SpecRace == InitRace /\ [][NextRace]_vars

----------------------------------------------------------------------------
\* CharacterTextSplitter of fullstack-rag-pdf-chat-app (aimakerspace/text_utils.py).
\* A text is a sequence of characters; a character is a natural number.

Characters == {0, 1}

Texts == UNION { [1 .. n -> Characters] : n \in 0 .. MaxTextLen }

\* The parameters are Python ints: zero and the negative numbers are ints too.
ChunkSizes == -1 .. MaxChunkSize

ChunkOverlaps == -2 .. MaxChunkSize - 1

\* The defaults of the constructor.
DefaultChunkSize == 1000

DefaultChunkOverlap == 200

\* The document of Scenario A: its i-th character is named i, so that a
\* slice shows the offsets it was cut at.
ScenarioLength == 2000

ScenarioText == [i \in 1 .. ScenarioLength |-> i]

\* A slice bound of Python: a negative bound counts from the end, and every
\* bound is clamped to 0 .. len.
SliceIndex(len, x) ==
    IF x < 0 THEN (IF x + len < 0 THEN 0 ELSE x + len) ELSE Min(x, len)

\* text[start : stop]
Slice(text, start, stop) ==
    LET a == SliceIndex(Len(text), start)
        b == SliceIndex(Len(text), stop)
    IN IF a < b THEN SubSeq(text, a + 1, b) ELSE << >>

\* [text[i : i + chunk_size] for i in range(from, len(text), step)]
RECURSIVE SplitFrom(_, _, _, _)
SplitFrom(text, i, chunk_size, step) ==
    IF i >= Len(text) THEN << >>
    ELSE <<Slice(text, i, i + chunk_size)>> \o SplitFrom(text, i + step, chunk_size, step)

\* CharacterTextSplitter.split
Split(text, chunk_size, chunk_overlap) ==
    LET step == chunk_size - chunk_overlap
    IN SplitFrom(text, 0, chunk_size, step)

\* CharacterTextSplitter(chunk_size, chunk_overlap), the defaults included.
CharacterTextSplitter ==
    /\ \E chunk_size \in ChunkSizes \cup {DefaultChunkSize},
          chunk_overlap \in ChunkOverlaps \cup {DefaultChunkOverlap} :
          /\ (chunk_size = DefaultChunkSize) <=> (chunk_overlap = DefaultChunkOverlap)
          /\ splitter' =
                IF chunk_size <= chunk_overlap
                THEN [state |-> "raised", error |-> "ValueError",
                      chunk_size |-> chunk_size, chunk_overlap |-> chunk_overlap]
                ELSE [state |-> "built",
                      chunk_size |-> chunk_size, chunk_overlap |-> chunk_overlap]
    /\ UNCHANGED chunker
    /\ UNCHANGED notText

\* The long document is split by the default splitter only.
TextsFor(chunk_size) ==
    IF chunk_size = DefaultChunkSize THEN Texts \cup {ScenarioText} ELSE Texts

split ==
    /\ splitter.state \in {"built", "split"}
    /\ \E text \in TextsFor(splitter.chunk_size) :
          splitter' = [state |-> "split",
                       chunk_size |-> splitter.chunk_size,
                       chunk_overlap |-> splitter.chunk_overlap,
                       text |-> text,
                       ret |-> Split(text, splitter.chunk_size, splitter.chunk_overlap)]
    /\ UNCHANGED chunker
    /\ UNCHANGED notText

InitSplit ==
    /\ StoreUnused
    /\ DbInit
    /\ Quiet

NextSplit ==
    \/ CharacterTextSplitter
    \/ split

SpecSplit == InitSplit /\ [][NextSplit]_vars

----------------------------------------------------------------------------
\* chunk_text of insurance-lens-app (app/services/text_chunker.py).
\* Here a text is a sequence of one-character strings.

Newline == "\n"

Letters == {"a", "b"}

\* extract_text keeps the pages whose stripped text is not empty.
PageTexts == UNION { [1 .. n -> Letters] : n \in 1 .. MaxPageLen }

\* The pages kept are numbered as in the document, in increasing order.
RECURSIVE PageLists(_)
PageLists(from) ==
    {<< >>} \cup
    UNION { { <<[page |-> p, text |-> t]>> \o rest : t \in PageTexts, rest \in PageLists(p + 1) }
            : p \in from .. MaxPages }

TextData == PageLists(1)

Strategies == {"semantic", "paragraph"}

StrategyNames == Strategies \cup {"sentence"}

Filename == "policy.pdf"

\* "\n\n".join([page["text"] for page in text_data])
RECURSIVE JoinPages(_)
JoinPages(text_data) ==
    IF text_data = << >> THEN << >>
    ELSE IF Len(text_data) = 1 THEN text_data[1].text
    ELSE text_data[1].text \o <<Newline, Newline>> \o JoinPages(Tail(text_data))

\* RecursiveCharacterTextSplitter.create_documents, by its contract: each
\* chunk is a piece of the text, stripped of surrounding whitespace, and the
\* chunks come in the order of the text. A span is the piece
\* all_text[start : stop].
Spans(all_text) ==
    { sp \in [start : 0 .. Len(all_text), stop : 0 .. Len(all_text)] :
         /\ sp.start < sp.stop
         /\ all_text[sp.start + 1] # Newline
         /\ all_text[sp.stop] # Newline }

SpanLists(all_text) ==
    IF all_text = << >> THEN {<< >>}
    ELSE { spans \in UNION { [1 .. n -> Spans(all_text)] : n \in 1 .. MaxSpans } :
              \A i \in 1 .. Len(spans) - 1 :
                 /\ spans[i].start < spans[i + 1].start
                 /\ spans[i].stop <= spans[i + 1].stop }

PageContent(all_text, sp) == SubSeq(all_text, sp.start + 1, sp.stop)

\* str.find: the lowest offset at which sub occurs in text, -1 if it occurs
\* nowhere.
OccursAt(text, sub, o) ==
    /\ o + Len(sub) <= Len(text)
    /\ SubSeq(text, o + 1, o + Len(sub)) = sub

Find(text, sub) ==
    IF \E o \in 0 .. Len(text) : OccursAt(text, sub, o)
    THEN CHOOSE o \in 0 .. Len(text) :
            /\ OccursAt(text, sub, o)
            /\ \A o2 \in 0 .. o - 1 : ~OccursAt(text, sub, o2)
    ELSE -1

RECURSIVE FindPageFrom(_, _, _, _)
FindPageFrom(text_data, char_offset, i, current_char_count) ==
    IF i > Len(text_data)
    THEN (IF text_data # << >> THEN text_data[1].page ELSE 1)
    ELSE LET page_len == Len(text_data[i].text)
         IN IF char_offset >= current_char_count
                  /\ char_offset < current_char_count + page_len
            THEN text_data[i].page
            ELSE FindPageFrom(text_data, char_offset, i + 1, current_char_count + page_len + 2)

_find_page_number(text_data, char_offset) ==
    FindPageFrom(text_data, char_offset, 1, 0)

\* chunk_text, the splitter having cut all_text into the given spans. The
\* token count of a chunk is the tokenizer's and is left out.
ChunkText(text_data, filename, strategy, spans) ==
    IF strategy \notin Strategies
    THEN [raised |-> TRUE, error |-> "ValueError"]
    ELSE LET all_text == JoinPages(text_data)
         IN [raised |-> FALSE,
             ret |-> [i \in 1 .. Len(spans) |->
                        LET page_content == PageContent(all_text, spans[i])
                            chunk_start == Find(all_text, page_content)
                        IN [id |-> <<filename, strategy, i - 1>>,
                            text |-> page_content,
                            page |-> _find_page_number(text_data, chunk_start),
                            chunk_index |-> i - 1,
                            start_char |-> << >>,
                            end_char |-> << >>]]]

chunk_text ==
    /\ chunker = NotChunked
    /\ \E text_data \in TextData, strategy \in StrategyNames :
          \E spans \in SpanLists(JoinPages(text_data)) :
             chunker' = [op |-> "chunk_text", text_data |-> text_data,
                         strategy |-> strategy, spans |-> spans] @@
                        ChunkText(text_data, Filename, strategy, spans)
    /\ UNCHANGED splitter
    /\ UNCHANGED notText

InitChunk ==
    /\ StoreUnused
    /\ DbInit
    /\ Quiet

\* The chunks are handed to the caller (process_pdf), which may chunk the
\* next document.
ChunksReturned ==
    /\ chunker # NotChunked
    /\ chunker' = NotChunked
    /\ UNCHANGED splitter
    /\ UNCHANGED notText

NextChunk ==
    \/ chunk_text
    \/ ChunksReturned

SpecChunk == InitChunk /\ [][NextChunk]_vars

----------------------------------------------------------------------------
\* Claims

Returned(op) == last.op = op /\ ~last.raised

Exists(policy_id) == collection_exists(qdrant, CollectionName(policy_id))

\* C1: search_similar_chunks on a policy that has no collection returns the
\* empty list and raises nothing, whatever the query, the limit and the state
\* of the embedding service.
C1_SearchMissingCollectionEmpty ==
    (last.op = "search_similar_chunks" /\ ~last.pre.existed)
        => (~last.raised /\ last.ret = <<>>)

\* C1 witness: a search on a policy whose collection was created and then
\* deleted by the call before.
C1_Witness ==
    /\ last.op = "search_similar_chunks"
    /\ ~last.pre.existed
    /\ last.after.op = "delete_policy"
    /\ last.after.policy_id = last.policy_id
    /\ last.after.ret

\* C2: delete_policy returns True exactly when the collection existed at the
\* call, leaves no collection behind, raises nothing, and returns False when
\* it directly follows a delete_policy of the same policy.
C2_DeleteReturnsExisted ==
    last.op = "delete_policy"
        => /\ ~last.raised
           /\ last.ret = last.pre.existed
           /\ ~Exists(last.policy_id)
           /\ (last.after.op = "delete_policy" /\ last.after.policy_id = last.policy_id)
                 => last.ret = FALSE

\* C2 witness: a second delete_policy in a row, after one that returned True.
C2_Witness ==
    /\ last.op = "delete_policy"
    /\ last.after.op = "delete_policy"
    /\ last.after.policy_id = last.policy_id
    /\ last.after.ret
    /\ last.ret = FALSE

\* C3: after create_policy_collection the collection <prefix, policy_id>
\* exists and is empty, whatever existed before, and its name is returned.
C3_CreateLeavesEmptyCollection ==
    last.op = "create_policy_collection"
        => /\ ~last.raised
           /\ last.ret = <<collection_prefix, last.policy_id>>
           /\ last.ret \in DOMAIN qdrant
           /\ Len(qdrant[last.ret]) = 0

\* C3 witness: create_policy_collection over a collection that held records.
C3_Witness ==
    /\ last.op = "create_policy_collection"
    /\ last.pre.existed
    /\ last.pre.count > 0

\* C4: after a successful store_chunks the collection holds exactly one
\* record per input chunk, with the embedding of that chunk's text and the
\* chunk's fields plus policy_id as payload; points_stored is len(chunks).
C4_StoreHoldsExactlyTheChunks ==
    Returned("store_chunks")
        => /\ Exists(last.policy_id)
           /\ last.ret.points_stored = Len(last.chunks)
           /\ LET stored == qdrant[CollectionName(last.policy_id)]
              IN /\ Len(stored) = Len(last.chunks)
                 /\ \A i, j \in DOMAIN stored : stored[i].id = stored[j].id => i = j
                 /\ \A i \in DOMAIN stored :
                       /\ stored[i].vector = Embed(last.chunks[i].text)
                       /\ DOMAIN stored[i].payload = DOMAIN last.chunks[i] \cup {"policy_id"}
                       /\ stored[i].payload.policy_id = last.policy_id
                       /\ \A f \in DOMAIN last.chunks[i] :
                             stored[i].payload[f] = last.chunks[i][f]

\* C4 witness: a successful store of two chunks or more over a collection
\* that held more records than are stored now.
C4_Witness ==
    /\ Returned("store_chunks")
    /\ Len(last.chunks) >= 2
    /\ last.pre.count > Len(last.chunks)

SearchOps == {"search_similar_chunks", "search_hybrid", "search_with_rerank"}

\* A search_hybrid call that got past its empty-collection return: the values
\* of its local variables are in last.
HybridRan == Returned("search_hybrid") /\ "all_chunks" \in DOMAIN last

SortedByScore(results) ==
    \A i \in DOMAIN results : i > 1 => FLe(results[i].score, results[i - 1].score)

InUnitInterval(x) == FLe(Zero, x) /\ FLe(x, One)

\* C5: a retrieval called with an integer limit >= 0 returns at most limit
\* entries.
C5_AtMostLimitEntries ==
    (last.op \in SearchOps /\ ~last.raised /\ last.limit # NoLimit)
        => Len(last.ret) <= last.limit[1]

\* C6: the list each of the three retrievals returns is in non-increasing
\* order of score.
C6_ResultsSortedByScore ==
    (last.op \in SearchOps /\ ~last.raised) => SortedByScore(last.ret)

\* C6 witness: a hybrid search returning two entries of different scores, the
\* better of which is not the first chunk scrolled.
C6_Witness ==
    /\ HybridRan
    /\ Len(last.ret) >= 2
    /\ FLt(last.ret[2].score, last.ret[1].score)
    /\ last.all_chunks[1] # last.ret[1].chunk

\* C7 as claimed: search_hybrid and search_with_rerank return the empty list
\* whenever the semantic search yields no candidates.
C7_EmptyWhenNoSemanticCandidates ==
    /\ (HybridRan /\ last.semantic_results = <<>>) => last.ret = <<>>
    /\ (Returned("search_with_rerank") /\ last.semantic_candidates = <<>>)
          => last.ret = <<>>

\* C7 as amended: search_with_rerank returns the empty list whenever the
\* semantic search yields no candidates; search_hybrid then ranks the chunks
\* by bm25_weight * normalised BM25 score alone, and its result is empty
\* exactly when no chunk reaches similarity_threshold with that score.
C7_RerankShortCircuitsHybridFallsBack ==
    /\ (Returned("search_with_rerank") /\ last.semantic_candidates = <<>>)
          => last.ret = <<>>
    /\ (HybridRan /\ last.semantic_results = <<>>)
          => LET lexical(i) == FMul(last.bm25_weight, last.bm25_scores_norm[i])
             IN /\ (last.ret = <<>>) <=>
                      ~\E i \in DOMAIN last.all_chunks :
                          FLe(config.similarity_threshold, lexical(i))
                /\ \A k \in DOMAIN last.ret :
                      \E i \in DOMAIN last.all_chunks :
                          /\ last.all_chunks[i] = last.ret[k].chunk
                          /\ FEq(last.ret[k].score, lexical(i))

\* C7 witness: a hybrid search whose semantic search found nothing and which
\* returns chunks all the same.
C7_Witness ==
    /\ HybridRan
    /\ last.semantic_results = <<>>
    /\ last.ret # <<>>

\* C8: search_hybrid fetches the semantic results with limit 2 * limit, scores
\* every chunk w * bm25_norm + (1 - w) * semantic_score (0 where a side is
\* missing) and returns, best first, the first limit chunks whose combined
\* score is >= similarity_threshold.
C8_HybridFormulaAndCut ==
    HybridRan =>
        LET limit == IF last.limit = NoLimit THEN config.max_results ELSE last.limit[1]
            fetched == SearchSimilarChunks(qdrant, config, last.policy_id, last.query,
                                           Some(2 * limit), TRUE).ret
            hits(i) == {k \in DOMAIN fetched : fetched[k].chunk.id = last.all_chunks[i].id}
            semantic(i) == IF hits(i) = {} THEN Zero
                           ELSE fetched[CHOOSE k \in hits(i) : TRUE].score
            combined(i) == FAdd(FMul(last.bm25_weight, last.bm25_scores_norm[i]),
                                FMul(FSub(One, last.bm25_weight), semantic(i)))
            passing == {i \in DOMAIN last.all_chunks :
                          FLe(config.similarity_threshold, combined(i))}
            returned == {i \in DOMAIN last.all_chunks :
                           \E k \in DOMAIN last.ret : last.ret[k].chunk = last.all_chunks[i]}
        IN /\ last.semantic_results = fetched
           /\ Len(last.ret) = Min(limit, Cardinality(passing))
           /\ returned \subseteq passing
           /\ Cardinality(returned) = Len(last.ret)
           /\ SortedByScore(last.ret)
           /\ \A k \in DOMAIN last.ret :
                 /\ FLe(config.similarity_threshold, last.ret[k].score)
                 /\ \E i \in returned : /\ last.ret[k].chunk = last.all_chunks[i]
                                        /\ FEq(last.ret[k].score, combined(i))
           /\ \A i \in passing \ returned :
                 \A k \in DOMAIN last.ret : FLe(combined(i), last.ret[k].score)

\* C9: every normalised BM25 score and every score search_hybrid returns lies
\* in [0, 1].
C9_HybridScoresInUnitInterval ==
    HybridRan =>
        /\ \A i \in DOMAIN last.bm25_scores_norm : InUnitInterval(last.bm25_scores_norm[i])
        /\ \A k \in DOMAIN last.ret : InUnitInterval(last.ret[k].score)

\* C10: the normalised BM25 score is raw / max(raw) when the maximum is
\* positive, every normalised score is 0 when the maximum is 0, and nothing
\* is divided by zero.
C10_NormalisedByMaximum ==
    HybridRan =>
        LET raw == last.bm25_scores
            norm == last.bm25_scores_norm
        IN /\ \A i \in DOMAIN norm : norm[i].d # 0
           /\ MaxOf(raw) > 0 =>
                 \A i \in DOMAIN norm : FEq(norm[i], Frac(raw[i], MaxOf(raw)))
           /\ MaxOf(raw) = 0 => \A i \in DOMAIN norm : FEq(norm[i], Zero)

\* What search_similar_chunks returns for the arguments of the search in last.
SemanticOfLast ==
    SearchSimilarChunks(qdrant, config, last.policy_id, last.query, last.limit, TRUE).ret

\* The normalised BM25 score search_hybrid computed for a chunk.
Bm25NormOf(chunk) ==
    last.bm25_scores_norm[CHOOSE i \in DOMAIN last.all_chunks : last.all_chunks[i] = chunk]

\* The semantic score of a chunk of the collection against the query in last.
CosineOf(chunk) == Cosine(Embed(last.query), Embed(chunk.text))

\* C11 as claimed: with bm25_weight = 0 search_hybrid returns the chunks of
\* search_similar_chunks in the same order with the same scores; with
\* bm25_weight = 1 it returns chunks by descending normalised BM25 score, each
\* with that score.
C11_HybridReducesAtExtremeWeights ==
    /\ (Returned("search_hybrid") /\ FEq(last.bm25_weight, Zero))
          => /\ Len(last.ret) = Len(SemanticOfLast)
             /\ \A k \in DOMAIN last.ret :
                   /\ last.ret[k].chunk = SemanticOfLast[k].chunk
                   /\ FEq(last.ret[k].score, SemanticOfLast[k].score)
    /\ (HybridRan /\ FEq(last.bm25_weight, One))
          => /\ SortedByScore(last.ret)
             /\ \A k \in DOMAIN last.ret :
                   FEq(last.ret[k].score, Bm25NormOf(last.ret[k].chunk))

\* C11 as amended: with bm25_weight = 0 search_hybrid returns as many entries
\* as search_similar_chunks, with the same scores position by position, each
\* entry a chunk of the collection carrying its own semantic score; the chunk
\* at a position is the same whenever no other candidate has that score.  With
\* bm25_weight = 1 the result is by descending normalised BM25 score, each
\* entry with that score.
C11_HybridReducesUpToTies ==
    /\ (Returned("search_hybrid") /\ FEq(last.bm25_weight, Zero))
          => /\ Len(last.ret) = Len(SemanticOfLast)
             /\ \A k \in DOMAIN last.ret :
                   /\ FEq(last.ret[k].score, SemanticOfLast[k].score)
                   /\ last.ret[k].chunk \in Range(last.all_chunks)
                   /\ FEq(last.ret[k].score, CosineOf(last.ret[k].chunk))
                   /\ (\A c \in Range(last.all_chunks) :
                          FEq(CosineOf(c), last.ret[k].score) => c = SemanticOfLast[k].chunk)
                         => last.ret[k].chunk = SemanticOfLast[k].chunk
    /\ (HybridRan /\ FEq(last.bm25_weight, One))
          => /\ SortedByScore(last.ret)
             /\ \A k \in DOMAIN last.ret :
                   FEq(last.ret[k].score, Bm25NormOf(last.ret[k].chunk))

\* C11 witness: a hybrid search with bm25_weight = 0 over two chunks of equal
\* semantic score, returned in the other order than search_similar_chunks
\* returns them.
C11_Witness ==
    /\ HybridRan
    /\ FEq(last.bm25_weight, Zero)
    /\ Len(last.ret) >= 2
    /\ last.ret[1].chunk = SemanticOfLast[2].chunk
    /\ last.ret[2].chunk = SemanticOfLast[1].chunk

\* C12: for k >= 1 search(query, k) is the first k entries of
\* search(query, k + 1), has min(k, number of stored keys) entries, one per
\* key, in non-increasing order of similarity; for k <= 0 it raises ValueError.
C12_SearchIsPrefixOfLargerSearch ==
    db_last.op = "search" =>
        IF db_last.k <= 0
        THEN db_last.raised /\ db_last.error = "ValueError"
        ELSE /\ ~db_last.raised
             /\ db_last.ret = Take(Search(vectors, db_last.query_vector, db_last.k + 1).ret,
                                   db_last.k)
             /\ Len(db_last.ret) = Min(db_last.k, Len(vectors))
             /\ SortedByScore(db_last.ret)
             /\ \A i, j \in DOMAIN db_last.ret :
                   db_last.ret[i].key = db_last.ret[j].key => i = j
             /\ \A i \in DOMAIN db_last.ret :
                   \E j \in DOMAIN vectors :
                      /\ vectors[j].key = db_last.ret[i].key
                      /\ db_last.ret[i].score =
                            cosine_similarity(db_last.query_vector, vectors[j].vector)

\* C12 witness: a search that cuts between two keys of equal similarity, the
\* better-scoring key having been inserted last.
C12_Witness ==
    /\ db_last.op = "search"
    /\ db_last.k >= 2
    /\ Len(vectors) > db_last.k
    /\ db_last.ret[1].key = vectors[Len(vectors)].key
    /\ LET more == Search(vectors, db_last.query_vector, db_last.k + 1).ret
       IN FEq(more[db_last.k].score, more[db_last.k + 1].score)

\* C19: cosine_similarity(a, b) is 0.0, with nothing divided by zero, whenever
\* a or b is the all-zero vector, and equals cosine_similarity(b, a) for every
\* pair of vectors.
C19_CosineZeroVectorAndSymmetry ==
    db_last.op = "cosine_similarity" =>
        /\ db_last.ret.d # 0
        /\ (db_last.vector_a = <<0, 0>> \/ db_last.vector_b = <<0, 0>>)
              => db_last.ret = Zero
        /\ db_last.ret = cosine_similarity(db_last.vector_b, db_last.vector_a)

\* C19 witness: cosine_similarity of the all-zero vector and a non-zero one.
C19_Witness ==
    /\ db_last.op = "cosine_similarity"
    /\ db_last.vector_a = <<0, 0>>
    /\ db_last.vector_b # <<0, 0>>

\* C13: when the reranker call raises in search_with_rerank, the exception
\* leaves search_with_rerank and policy_agent_node as it is: no search results
\* are returned, the semantic candidates are not used, generate_answer is not
\* called and the request ends without an answer.
C13_RerankFailurePropagates ==
    (ask.pc \in {"generate_answer", "respond", "done"} /\ ask.reranker_raised)
          => /\ ask.pc # "generate_answer"
             /\ ask.error = RerankerFailure
             /\ ask.search.raised
             /\ "ret" \notin DOMAIN ask.search
             /\ ~ask.chain_invoked
             /\ ask.state.answer_result = NoAnswerResult
             /\ ask.pc = "done" => ask.response.status_code = 500

\* C13 witness: a request with the rerank strategy whose semantic search found
\* candidates and whose reranker raised, answered.
C13_Witness ==
    /\ ask.pc = "done"
    /\ ask.reranker_raised
    /\ ask.search.semantic_candidates # <<>>

\* C15: generate_answer raises NoRelevantChunksError whenever the search
\* results are empty, without invoking the chain; no answer is produced, and
\* the ask route answers 404.
C15_EmptyRetrievalRaisesNoRelevantChunks ==
    (ask.pc \in {"respond", "done"} /\ ask.searched /\ ~ask.search.raised
        /\ ask.search.ret = <<>>)
       => /\ ask.error = "NoRelevantChunksError"
          /\ ~ask.chain_invoked
          /\ ask.state.answer_result = NoAnswerResult
          /\ ask.pc = "done" =>
                /\ ask.response.status_code = 404
                /\ ask.response.error = "no_relevant_chunks_found"

\* C15 witness: a request on a policy whose collection holds chunks, none of
\* which the retrieval returns, answered.
C15_Witness ==
    /\ ask.pc = "done"
    /\ NumPoints(qdrant, ask.state.policy_id) > 0
    /\ ~ask.search.raised
    /\ ask.search.ret = <<>>
    /\ ask.searched

\* A search_with_rerank call that got the reranker's answer: the values of its
\* local variables are in last.
RerankRan == Returned("search_with_rerank") /\ "reranked" \in DOMAIN last

\* C14: search_with_rerank fetches at most rerank_top_k semantic candidates
\* and returns the reranker's documents in the reranker's order, cut to limit:
\* the entry at a position carries the relevance score the reranker gave the
\* document at that position and the candidate chunk that document was made of.
C14_RerankOrderScoresAndChunks ==
    RerankRan =>
        LET limit == IF last.limit = NoLimit THEN config.max_results ELSE last.limit[1]
        IN /\ Len(last.semantic_candidates) <= last.rerank_top_k
           /\ Len(last.ret) = Min(limit, Len(last.ranking))
           /\ \A k \in DOMAIN last.ret :
                 /\ k <= Len(last.ranking)
                 /\ last.ret[k].score = last.ranking[k].relevance_score
                 /\ last.ret[k].chunk =
                       last.semantic_candidates[last.ranking[k].index].chunk

\* The chunks of the versions of the collection a search can meet while the
\* writing call runs: the contents before it and the contents after it.
RaceVersions ==
    IF writer.pc = "idle" THEN {Range(ChunksOf(qdrant))}
    ELSE {Range(writer.old),
          IF writer.op = "store_chunks" THEN Range(writer.chunks) ELSE {}}

\* C16: a search running beside a create_policy_collection, store_chunks or
\* delete_policy of the same policy completes, under every interleaving of
\* their Qdrant calls, without raising, and returns the empty list or results
\* whose chunks all belong to one version of the collection.
C16_SearchBesideWriterNeverRaises ==
    reader.pc = "done" =>
        /\ ~reader.raised
        /\ \E version \in RaceVersions :
              \A k \in DOMAIN reader.ret : reader.ret[k].chunk \in version
Splitted == splitter.state = "split"

\* The number of i = 0, 1, ... with i * step < len.
NumOffsets(len, step) == Cardinality({i \in 0 .. len : i * step < len})

\* C17: with step = chunk_size - chunk_overlap, split returns exactly the
\* chunks text[i*step : i*step + chunk_size] for i = 0, 1, ... while
\* i*step < len(text), in that order; every chunk is non-empty and at most
\* chunk_size long; the empty text yields no chunks; the 2000-character text
\* at 1000/200 yields the chunks [0:1000], [800:1800], [1600:2000].
C17_SplitChunksAtStepOffsets ==
    Splitted =>
        LET text == splitter.text
            chunk_size == splitter.chunk_size
            step == splitter.chunk_size - splitter.chunk_overlap
            n == NumOffsets(Len(text), step)
        IN /\ Len(splitter.ret) = n
           /\ \A i \in 0 .. n - 1 :
                 splitter.ret[i + 1] = Slice(text, i * step, i * step + chunk_size)
           /\ \A k \in 1 .. n :
                 /\ splitter.ret[k] # << >>
                 /\ Len(splitter.ret[k]) <= chunk_size
           /\ (text = << >>) => (splitter.ret = << >>)
           /\ (text = ScenarioText /\ chunk_size = DefaultChunkSize
                  /\ splitter.chunk_overlap = DefaultChunkOverlap)
                 => splitter.ret = << [i \in 1 .. 1000 |-> i],
                                      [i \in 1 .. 1000 |-> 800 + i],
                                      [i \in 1 .. 400 |-> 1600 + i] >>

\* The non-overlapping regions of the chunks, one after the other: the first
\* step characters of each chunk, the whole chunk when it is shorter.
RECURSIVE NonOverlapping(_, _)
NonOverlapping(chunks, step) ==
    IF chunks = << >> THEN << >>
    ELSE Take(Head(chunks), step) \o NonOverlapping(Tail(chunks), step)

\* C18: for every text and every configuration with chunk_size >
\* chunk_overlap, the non-overlapping regions of the chunks split returns,
\* concatenated, are the original text: no character lost, none duplicated.
C18_NonOverlappingRegionsReconstructText ==
    Splitted =>
        NonOverlapping(splitter.ret, splitter.chunk_size - splitter.chunk_overlap)
            = splitter.text

Chunked == chunker.op = "chunk_text" /\ ~chunker.raised

\* The offset in the joined text at which page i of text_data starts: the
\* pages before it, each followed by the two characters of the separator.
RECURSIVE PageStart(_, _)
PageStart(text_data, i) ==
    IF i = 1 THEN 0
    ELSE PageStart(text_data, i - 1) + Len(text_data[i - 1].text) + 2

\* The input page whose range in the joined text holds the offset.
PageHolding(text_data, offset) ==
    CHOOSE i \in 1 .. Len(text_data) :
        /\ PageStart(text_data, i) <= offset
        /\ offset < PageStart(text_data, i) + Len(text_data[i].text)

\* C20: the page of every chunk chunk_text returns is the page number of the
\* input page whose range in the joined text (two-character separator)
\* holds the offset at which the chunk starts, for every page list, those
\* where the same chunk text occurs on several pages included.
C20_ChunkPageHoldsChunkStart ==
    Chunked =>
        \A i \in 1 .. Len(chunker.ret) :
            chunker.ret[i].page =
                chunker.text_data[PageHolding(chunker.text_data, chunker.spans[i].start)].page

\* C27: store_chunks is all-or-nothing: when the embedding of a chunk fails
\* the call raises, none of the new chunks is stored, and the collection of
\* policy_id holds what it held before the call (and does not exist if it
\* did not exist before).
C27_StoreChunksAllOrNothing ==
    (last.op = "store_chunks" /\ last.raised /\ last.chunks # << >>) =>
        /\ Exists(last.policy_id) = last.pre.existed
        /\ Exists(last.policy_id) =>
              qdrant[CollectionName(last.policy_id)] = last.pre.points

\* A request that names a policy without a collection, answered.
AskedMissingPolicy ==
    /\ ask.pc = "done"
    /\ ask.state.policy_id \in PolicyIds
    /\ ~Exists(ask.state.policy_id)

\* C22 as stated: a question against a policy_id without a collection is
\* answered 404 or 500 for every outcome of the guardrail check and of the
\* classification, never 200.
C22_MissingPolicyAnswered404Or500 ==
    AskedMissingPolicy => ask.response.status_code \in {404, 500}

\* C22: a question against a policy_id without a collection is answered 404
\* no_relevant_chunks_found when the guardrail accepts it and it is
\* classified POLICY_SPECIFIC, and then never 200; a question the guardrail
\* rejects is answered 400; a question classified GENERAL_INSURANCE is
\* answered by the web agent, 200 or 500.
C22_MissingPolicyByGuardrailAndType ==
    AskedMissingPolicy =>
        /\ ask.state.question_type = "None" => ask.response.status_code = 400
        /\ ask.state.question_type = "POLICY_SPECIFIC" =>
              /\ ask.response.status_code = 404
              /\ ask.response.error = "no_relevant_chunks_found"
        /\ ask.state.question_type = "GENERAL_INSURANCE" =>
              /\ ask.response.status_code \in {200, 500}
              /\ ~ask.searched

\* C22 witness: an accepted, policy-specific question against a policy
\* without a collection, answered 404.
C22_Witness ==
    /\ AskedMissingPolicy
    /\ ask.state.question_type = "POLICY_SPECIFIC"
    /\ ask.searched
    /\ ask.response.status_code = 404

\* A request answered 200.
Answered200 == ask.pc = "done" /\ ask.response.status_code = 200

\* The answer is the policy agent's.
PolicyAnswer == Answered200 /\ \E i \in DOMAIN ask.nodes : ask.nodes[i] = "policy_agent"

\* C23: the confidence of every successful answer lies in [0,1]; for a
\* policy answer it is the arithmetic mean of the scores of the search
\* results handed to generate_answer (confidence times their number is their
\* sum), for each retrieval strategy.
C23_ConfidenceIsMeanInUnitInterval ==
    Answered200 =>
        /\ InUnitInterval(ask.response.confidence)
        /\ PolicyAnswer =>
              /\ ask.search.ret # << >>
              /\ FEq(FMul(ask.response.confidence, Frac(Len(ask.search.ret), 1)),
                     SumScores(ask.search.ret))

\* C23 witness: a policy answer of the hybrid strategy over two results of
\* different scores.
C23_Witness ==
    /\ PolicyAnswer
    /\ ask.state.retrieval_strategy = "hybrid"
    /\ Len(ask.search.ret) >= 2
    /\ ~FEq(ask.search.ret[1].score, ask.search.ret[2].score)

\* generate_answer has returned a result.
Generated ==
    /\ ask.pc \in {"respond", "done"}
    /\ ask.error = NoError
    /\ \E i \in DOMAIN ask.nodes : ask.nodes[i] = "policy_agent"

\* The citation of a search result: its chunk id, page number, text snippet
\* and score.
CitationOf(result) ==
    [chunk_id |-> result.chunk.id,
     page_number |-> result.chunk.page,
     text_snippet |-> result.chunk.text,
     relevance_score |-> result.score]

\* C24 as stated: every successful result of generate_answer carries one
\* citation per search result, in their order, for every answer text.
C24_OneCitationPerResult ==
    Generated =>
        /\ Len(ask.state.answer_result.citations) = Len(ask.search.ret)
        /\ \A i \in DOMAIN ask.search.ret :
              ask.state.answer_result.citations[i] = CitationOf(ask.search.ret[i])

\* C24: a successful result of generate_answer carries one citation per
\* search result, in their order, each with that result's chunk id, page
\* number, text snippet and score, when the answer text holds none of the
\* "not found" phrases; when it holds one, the result carries no citation.
C24_OneCitationPerResultUnlessNotFound ==
    Generated =>
        IF ask.state.answer_result.has_info
        THEN /\ Len(ask.state.answer_result.citations) = Len(ask.search.ret)
             /\ \A i \in DOMAIN ask.search.ret :
                   ask.state.answer_result.citations[i] = CitationOf(ask.search.ret[i])
        ELSE ask.state.answer_result.citations = << >>

\* C24 witness: an informative answer over two search results.
C24_Witness ==
    /\ Generated
    /\ ask.state.answer_result.has_info
    /\ Len(ask.search.ret) >= 2
    /\ ask.search.ret[1].chunk.id # ask.search.ret[2].chunk.id

\* The graph run of the request has ended, by END or by an exception.
RunEnded == ask.pc \in {"respond", "done"}

\* The routing of C25: classify runs first; an accepted question runs
\* exactly one agent node after it; policy_agent runs for POLICY_SPECIFIC
\* questions only; a request without policy_id goes to web_agent; a rejected
\* question runs no agent node.
GraphRouting ==
    /\ ask.pc # "idle" =>
          ask.nodes \in { << >>, <<"classify">>, <<"classify", "policy_agent">>,
                          <<"classify", "web_agent">> }
    /\ RunEnded =>
          /\ ask.state.question_type = "None" => ask.nodes = <<"classify">>
          /\ ask.state.question_type # "None" =>
                ask.nodes \in { <<"classify", "policy_agent">>, <<"classify", "web_agent">> }
          /\ ask.nodes = <<"classify", "policy_agent">> =>
                ask.state.question_type = "POLICY_SPECIFIC"
          /\ (ask.state.policy_id = NoPolicy /\ ask.state.question_type # "None") =>
                ask.nodes = <<"classify", "web_agent">>

\* C25 as stated: the routing, and every run of an accepted question ends
\* with answer_result set.
C25_RoutingAndAnswerAlwaysSet ==
    /\ GraphRouting
    /\ (RunEnded /\ ask.state.question_type # "None") => ask.state.answer_result # NoAnswerResult

\* C25: the routing; a run ends with answer_result set exactly when its
\* agent node returned, and with the node's exception when it raised.
C25_RoutingAndAnswerSetOnReturn ==
    /\ GraphRouting
    /\ RunEnded => ((ask.state.answer_result # NoAnswerResult) <=> (ask.error = NoError))
    /\ (RunEnded /\ ask.error = NoError) => Len(ask.nodes) = 2

\* C25 witness: a request without policy_id, accepted, answered by the web
\* agent.
C25_Witness ==
    /\ ask.pc = "done"
    /\ ask.state.policy_id = NoPolicy
    /\ ask.nodes = <<"classify", "web_agent">>
    /\ ask.state.answer_result # NoAnswerResult

\* C29: every entry search_with_rerank returns is a chunk of the semantic
\* candidate list of the same call, no chunk appears twice in the result, and
\* the result has min(limit, number of documents the reranker returned)
\* entries, also when two candidate chunks have the same text.
C29_RerankEntriesDistinctCandidates ==
    RerankRan =>
        LET limit == IF last.limit = NoLimit THEN config.max_results ELSE last.limit[1]
        IN /\ \A k \in DOMAIN last.ret :
                 \E c \in DOMAIN last.semantic_candidates :
                    last.ret[k].chunk = last.semantic_candidates[c].chunk
           /\ \A j, k \in DOMAIN last.ret :
                 j # k => last.ret[j].chunk.id # last.ret[k].chunk.id
           /\ Len(last.ret) = Min(limit, Len(last.ranking))

-----------------------------------------------------------------------------
\* PolicyService of insurance-lens-app: upload and deletion of policies.

\* The policy ids uuid4 can hand out, each one once.
ServiceIds == {"p1", "p2"}

\* The chunk lists process_pdf returns.
UploadChunkLists == {chunks \in ChunkLists : Len(chunks) <= MaxUploadChunks}

\* The steps of process_policy_upload, after the policy id is generated, that
\* can raise.
UploadSteps == {"save", "process_pdf", "create_policy_collection", "store_chunks"}

\* process_policy_upload for a file named *.pdf, with the freshly generated
\* policy_id.  fail: the step that raises, "none" for no failure.  open()
\* creates the file before the content is read; the except clause removes the
\* file and raises ValueError.
ProcessPolicyUpload(q, fs, policy_id, chunks, fail, emptyOk) ==
    LET saved == fs \cup {policy_id}
        created == CreatePolicyCollection(q, policy_id)
        stored == StoreChunks(created, policy_id, chunks,
                              IF fail = "store_chunks" THEN 1 ELSE 0, emptyOk)
        Failed(qq) == [raised |-> TRUE, error |-> "ValueError",
                       qdrant |-> qq, files |-> saved \ {policy_id}]
    IN IF fail \in {"save", "process_pdf", "create_policy_collection"} THEN Failed(q)
       ELSE IF stored.raised THEN Failed(stored.qdrant)
       ELSE [raised |-> FALSE, qdrant |-> stored.qdrant, files |-> saved,
             ret |-> [policy_id |-> policy_id, total_chunks |-> Len(chunks)]]

\* A faulty variant of ServiceDeletePolicy: the PDF file is removed only when
\* the collection existed.
ServiceDeletePolicyKeepsFile(q, fs, policy_id) ==
    LET deleted == DeletePolicy(q, policy_id)
    IN IF deleted.ret
       THEN [raised |-> FALSE, qdrant |-> deleted.qdrant, files |-> fs,
             ret |-> "message"]
       ELSE [raised |-> TRUE, error |-> "ValueError",
             qdrant |-> deleted.qdrant, files |-> fs]

\* PolicyService.delete_policy: deletes the collection, removes the PDF file
\* if there is one, and returns a message if the collection existed, else
\* raises ValueError.
ServiceDeletePolicy(q, fs, policy_id) ==
    LET deleted == DeletePolicy(q, policy_id)
        removed == fs \ {policy_id}
    IN IF deleted.ret
       THEN [raised |-> FALSE, qdrant |-> deleted.qdrant, files |-> removed,
             ret |-> "message"]
       ELSE [raised |-> TRUE, error |-> "ValueError",
             qdrant |-> deleted.qdrant, files |-> removed]

\* The route handlers: upload answers ValueError with 400, delete with 404.
ServiceStatus(op, out) ==
    IF ~out.raised THEN 200 ELSE IF op = "upload" THEN 400 ELSE 404

\* What the record of a call keeps of the call before it.
Earlier ==
    IF service = NoService THEN NoService
    ELSE [op |-> service.op, policy_id |-> service.policy_id,
          status_code |-> service.status_code]

\* The record of a PolicyService call on policy_id.
ServiceCall(op, policy_id, out) ==
    [op |-> op, policy_id |-> policy_id, raised |-> out.raised,
     status_code |-> ServiceStatus(op, out),
     existed |-> Exists(policy_id), had_file |-> policy_id \in files,
     earlier |-> Earlier]

\* POST /policies/upload with a file whose name does not end in .pdf:
\* ValueError before a policy id is generated.
upload_not_pdf ==
    /\ service' = [op |-> "upload", policy_id |-> "None", raised |-> TRUE,
                   status_code |-> 400, existed |-> FALSE, had_file |-> FALSE,
                   fail |-> "filetype", earlier |-> Earlier]
    /\ UNCHANGED <<qdrant, files, issued>>
    /\ UNCHANGED notService

\* POST /policies/upload with a PDF file.
process_policy_upload ==
    /\ \E policy_id \in ServiceIds \ issued, chunks \in UploadChunkLists,
          fail \in UploadSteps \cup {"none"}, emptyOk \in BOOLEAN :
          LET out == ProcessPolicyUpload(qdrant, files, policy_id, chunks, fail, emptyOk)
          IN /\ qdrant' = out.qdrant
             /\ files' = out.files
             /\ issued' = issued \cup {policy_id}
             /\ service' = ServiceCall("upload", policy_id, out) @@
                           [fail |-> IF out.raised /\ fail = "none"
                                     THEN "store_chunks" ELSE fail]
    /\ UNCHANGED notService

\* DELETE /policies/{policy_id}.
service_delete_policy ==
    /\ \E policy_id \in ServiceIds :
          LET out == ServiceDeletePolicy(qdrant, files, policy_id)
          IN /\ qdrant' = out.qdrant
             /\ files' = out.files
             /\ service' = ServiceCall("delete", policy_id, out)
    /\ UNCHANGED issued
    /\ UNCHANGED notService

NextService ==
    \/ upload_not_pdf
    \/ process_policy_upload
    \/ service_delete_policy

SpecService == Init /\ [][NextService]_vars

\* C21: a delete of a policy whose collection exists succeeds (200) and
\* leaves neither the collection nor the PDF file; a delete of a policy
\* without a collection is answered 404; so a delete that follows a delete of
\* the same policy is answered 404.
C21_DeleteRemovesAllThen404 ==
    service.op = "delete" =>
        /\ service.existed =>
              /\ service.status_code = 200
              /\ ~Exists(service.policy_id)
              /\ service.policy_id \notin files
        /\ ~service.existed => service.status_code = 404
        /\ (service.earlier.op = "delete"
            /\ service.earlier.policy_id = service.policy_id) =>
              service.status_code = 404

\* C21 witness: a policy uploaded with its file and collection, deleted with
\* 200, and deleted again.
C21_Witness ==
    /\ service.op = "delete"
    /\ service.status_code = 404
    /\ service.earlier.op = "delete"
    /\ service.earlier.policy_id = service.policy_id
    /\ service.earlier.status_code = 200

\* C28: when process_policy_upload fails at a step after the policy id is
\* generated, it raises ValueError and afterwards neither the PDF file nor a
\* collection of that policy id exists.
C28_FailedUploadLeavesNothing ==
    (service.op = "upload" /\ service.raised /\ service.policy_id \in ServiceIds) =>
        /\ service.status_code = 400
        /\ service.policy_id \notin files
        /\ ~Exists(service.policy_id)

-----------------------------------------------------------------------------
\* The helpfulness agent graph of production-rag-and-guardrails.

\* The values of max_refinements a graph is created with.
RefinementLimits == 0 .. MaxRefinements

\* The default of max_refinements.
DefaultMaxRefinements == 2

\* The values of helpfulness_threshold a graph is created with: the default
\* 0.7 and the two ends of the score range.
HelpfulnessThresholds == {Zero, Frac(7, 10), One}

\* The scores evaluate_helpfulness can get: parse_helpfulness_score clamps
\* the evaluator's number to [0,1] and gives 0.5 for an unreadable answer, as
\* does the except clause for a failing evaluator.
HelpfulnessScores == {Zero, Frac(1, 2), Frac(7, 10), One}

\* The nodes of the graph.
HelpfulNodes ==
    {"validate_input", "input_error", "agent", "action", "validate_output",
     "evaluate", "refine"}

\* The entry point of the graph.
EntryPoint(with_input_guardrails) ==
    IF with_input_guardrails THEN "validate_input" ELSE "agent"

\* should_evaluate and the edges of agent.
ShouldEvaluate(tool_calls, with_output_guardrails) ==
    IF tool_calls THEN "action"
    ELSE IF with_output_guardrails THEN "validate_output"
    ELSE "evaluate"

\* A faulty variant of NeedsRefinement: the number of refinements made is
\* not looked at.
NeedsRefinementUncounted(score, helpfulness_threshold, current_count, max_refinements) ==
    FLt(score, helpfulness_threshold)

\* needs_refinement as evaluate_helpfulness computes it.
NeedsRefinement(score, helpfulness_threshold, current_count, max_refinements) ==
    FLt(score, helpfulness_threshold) /\ current_count < max_refinements

\* should_refine and the edges of evaluate.
ShouldRefine(needs_refinement) == IF needs_refinement THEN "refine" ELSE "END"

\* create_helpfulness_agent: the graph is compiled with its parameters.
create_helpfulness_agent ==
    /\ helpful = NoAgent
    /\ \E helpfulness_threshold \in HelpfulnessThresholds,
          max_refinements \in RefinementLimits,
          with_input_guardrails, with_output_guardrails \in BOOLEAN :
          helpful' = [pc |-> "ready",
                      helpfulness_threshold |-> helpfulness_threshold,
                      max_refinements |-> max_refinements,
                      with_input_guardrails |-> with_input_guardrails,
                      with_output_guardrails |-> with_output_guardrails,
                      refinement_count |-> 0,
                      needs_refinement |-> FALSE,
                      helpfulness_score |-> << >>,
                      refined |-> 0,
                      tool_rounds |-> 0]
    /\ UNCHANGED notHelpful

\* graph.invoke: a run starts at the entry point, with the messages alone
\* (refinement_count absent, read as 0) or with the final state of the run
\* before (carry).  refined and tool_rounds count the executions of refine
\* and of action in this run.
invoke ==
    /\ helpful.pc \in {"ready", "END"}
    /\ \E carry \in BOOLEAN :
          helpful' = [helpful EXCEPT
                        !.pc = EntryPoint(helpful.with_input_guardrails),
                        !.refinement_count = IF carry THEN @ ELSE 0,
                        !.needs_refinement = IF carry THEN @ ELSE FALSE,
                        !.helpfulness_score = IF carry THEN @ ELSE << >>,
                        !.refined = 0,
                        !.tool_rounds = 0]
    /\ UNCHANGED notHelpful

\* validate_input and route_after_input_validation.
validate_input ==
    /\ helpful.pc = "validate_input"
    /\ \E input_validation_passed \in BOOLEAN :
          helpful' = [helpful EXCEPT !.pc = IF input_validation_passed
                                           THEN "agent" ELSE "input_error"]
    /\ UNCHANGED notHelpful

\* input_error: the error message, then END.
input_error ==
    /\ helpful.pc = "input_error"
    /\ helpful' = [helpful EXCEPT !.pc = "END"]
    /\ UNCHANGED notHelpful

\* agent (call_model): the model answers, with tool calls or without.  The
\* model asks for tools in at most MaxToolRounds rounds of a run.
call_model ==
    /\ helpful.pc = "agent"
    /\ \E tool_calls \in BOOLEAN :
          /\ tool_calls => helpful.tool_rounds < MaxToolRounds
          /\ helpful' = [helpful EXCEPT
                           !.pc = ShouldEvaluate(tool_calls,
                                                 helpful.with_output_guardrails)]
    /\ UNCHANGED notHelpful

\* action (the tool node), then back to agent.
action ==
    /\ helpful.pc = "action"
    /\ helpful' = [helpful EXCEPT !.pc = "agent", !.tool_rounds = @ + 1]
    /\ UNCHANGED notHelpful

\* validate_output and route_after_output_validation.
validate_output ==
    /\ helpful.pc = "validate_output"
    /\ helpful' = [helpful EXCEPT !.pc = "evaluate"]
    /\ UNCHANGED notHelpful

\* evaluate (evaluate_helpfulness) and should_refine.
evaluate_helpfulness ==
    /\ helpful.pc = "evaluate"
    /\ \E score \in HelpfulnessScores :
          LET needs_refinement ==
                  NeedsRefinement(score, helpful.helpfulness_threshold,
                                  helpful.refinement_count, helpful.max_refinements)
          IN helpful' = [helpful EXCEPT !.helpfulness_score = <<score>>,
                                        !.needs_refinement = needs_refinement,
                                        !.pc = ShouldRefine(needs_refinement)]
    /\ UNCHANGED notHelpful

\* refine (refine_response), then back to agent.
refine_response ==
    /\ helpful.pc = "refine"
    /\ helpful' = [helpful EXCEPT !.refinement_count = @ + 1,
                                  !.refined = @ + 1,
                                  !.pc = "agent"]
    /\ UNCHANGED notHelpful

\* A step of a running graph.
GraphStep ==
    \/ validate_input
    \/ input_error
    \/ call_model
    \/ action
    \/ validate_output
    \/ evaluate_helpfulness
    \/ refine_response

NextHelpful ==
    \/ create_helpfulness_agent
    \/ invoke
    \/ GraphStep

InitHelpful == StoreUnused /\ DbInit /\ Quiet

SpecHelpful == InitHelpful /\ [][NextHelpful]_vars

\* A started run goes on until END: a scheduled node is executed.
SpecHelpfulFair == SpecHelpful /\ WF_vars(GraphStep)

\* A run is under way.
Running == helpful.pc \in HelpfulNodes

\* The bounds of C26 on a graph that exists: refine has run at most
\* max_refinements times in the run, refinement_count is at most
\* max_refinements, and refine is the next node only below max_refinements.
RefinementsBounded ==
    helpful # NoAgent =>
        /\ helpful.refined <= helpful.max_refinements
        /\ helpful.refinement_count <= helpful.max_refinements
        /\ helpful.pc = "refine" =>
              helpful.refinement_count < helpful.max_refinements
        /\ helpful.pc = "END" => ~helpful.needs_refinement

\* C26: in every run refine executes at most max_refinements times and
\* refinement_count never exceeds max_refinements; with refinement_count
\* equal to max_refinements evaluate routes to END for every score; and the
\* run ends, the evaluate -> refine -> agent loop not repeating forever.
C26_RefinementsBoundedRunEnds ==
    /\ []RefinementsBounded
    /\ [][(helpful.pc = "evaluate"
           /\ helpful.refinement_count = helpful.max_refinements)
          => helpful'.pc = "END"]_vars
    /\ (Running ~> helpful.pc = "END")

\* C26 witness: a run that has made all max_refinements refinements, two or
\* more, and has ended after a last evaluation below the threshold.
C26_Witness ==
    /\ helpful # NoAgent
    /\ helpful.pc = "END"
    /\ helpful.max_refinements >= DefaultMaxRefinements
    /\ helpful.refined = helpful.max_refinements
    /\ helpful.helpfulness_score # << >>
    /\ FLt(helpful.helpfulness_score[1], helpful.helpfulness_threshold)

-----------------------------------------------------------------------------
\* The API of fullstack-rag-pdf-chat-app: chat, clear_document and upload_pdf
\* on the globals vector_database and embedding_model.  The handlers are
\* coroutines on one event loop: a handler runs alone from one await to the
\* next.

\* The PDF documents a client uploads.
Documents == {"d1", "d2"}

\* VectorDatabase(embedding_model) filled with the chunks of a document: the
\* for loop of upload_pdf inserts them without an await.
PopulatedDatabase(document) == [document |-> document, populated |-> TRUE]

\* vector_database.search(query_embedding, k=3) on the global as it is after
\* the await: AttributeError when it is None.
ChatRetrieve(vector_database) ==
    IF vector_database = << >>
    THEN [raised |-> TRUE, error |-> "AttributeError"]
    ELSE [raised |-> FALSE, context |-> vector_database]

\* The chat request, answered.
ChatDone(after_clear, status_code, error, context) ==
    [pc |-> "done", after_clear |-> after_clear, status_code |-> status_code,
     error |-> error, context |-> context]

\* chat, up to its await: with both globals set it asks for the embedding of
\* the question, otherwise it answers without document context.
chat ==
    /\ requests.chat.pc \in {"idle", "done"}
    /\ requests' = [requests EXCEPT !.chat =
          IF rag.vector_database # << >> /\ rag.embedding_model # << >>
          THEN [pc |-> "async_get_embedding", after_clear |-> requests.cleared]
          ELSE ChatDone(requests.cleared, 200, NoError, << >>)]
    /\ UNCHANGED rag
    /\ UNCHANGED notChat

\* chat, after the await: the embedding call has failed or the search runs on
\* the global vector_database; every exception is answered 500.
chat_search ==
    /\ requests.chat.pc = "async_get_embedding"
    /\ \E embedOk \in BOOLEAN :
          LET out == ChatRetrieve(rag.vector_database)
              after_clear == requests.chat.after_clear
          IN requests' = [requests EXCEPT !.chat =
                IF ~embedOk THEN ChatDone(after_clear, 500, EmbeddingFailure, << >>)
                ELSE IF out.raised THEN ChatDone(after_clear, 500, out.error, << >>)
                ELSE ChatDone(after_clear, 200, NoError, out.context)]
    /\ UNCHANGED rag
    /\ UNCHANGED notChat

\* clear_document: both globals become None; the handler has no await.
clear_document ==
    /\ rag' = NoDocument
    /\ requests' = [requests EXCEPT !.cleared = TRUE]
    /\ UNCHANGED notChat

\* upload_pdf, up to await file.read().
upload_pdf ==
    /\ requests.upload.pc \in {"idle", "done"}
    /\ \E document \in Documents :
          requests' = [requests EXCEPT !.upload = [pc |-> "read", document |-> document]]
    /\ UNCHANGED rag
    /\ UNCHANGED notChat

\* upload_pdf, from the file content to await async_get_embeddings: the PDF
\* is loaded and split (pdfOk), and embedding_model is created if it is None
\* (keyOk: an API key is at hand).
upload_embed ==
    /\ requests.upload.pc = "read"
    /\ \E pdfOk, keyOk \in BOOLEAN :
          IF ~pdfOk \/ (rag.embedding_model = << >> /\ ~keyOk)
          THEN /\ requests' = [requests EXCEPT !.upload =
                                  [pc |-> "done", document |-> requests.upload.document,
                                   status_code |-> 500]]
               /\ UNCHANGED rag
          ELSE /\ requests' = [requests EXCEPT !.upload.pc = "async_get_embeddings"]
               /\ rag' = [rag EXCEPT !.embedding_model = <<"EmbeddingModel">>]
    /\ UNCHANGED notChat

\* upload_pdf, after await async_get_embeddings: the new VectorDatabase is
\* created and filled.  With the global embedding_model None again, its
\* constructor builds an EmbeddingModel from the environment (envKey) or
\* raises.
upload_store ==
    /\ requests.upload.pc = "async_get_embeddings"
    /\ \E embedOk, envKey \in BOOLEAN :
          IF ~embedOk \/ (rag.embedding_model = << >> /\ ~envKey)
          THEN /\ requests' = [requests EXCEPT !.upload =
                                  [pc |-> "done", document |-> requests.upload.document,
                                   status_code |-> 500]]
               /\ UNCHANGED rag
          ELSE /\ requests' = [requests EXCEPT
                                  !.upload = [pc |-> "done",
                                              document |-> requests.upload.document,
                                              status_code |-> 200],
                                  !.cleared = FALSE]
               /\ rag' = [rag EXCEPT !.vector_database =
                                        <<PopulatedDatabase(requests.upload.document)>>]
    /\ UNCHANGED notChat

NextChat ==
    \/ chat
    \/ chat_search
    \/ clear_document
    \/ upload_pdf
    \/ upload_embed
    \/ upload_store

InitChat == StoreUnused /\ DbInit /\ Quiet

SpecChat == InitChat /\ [][NextChat]_vars

\* C30: a chat request beside clear_document and upload_pdf fails only when
\* its embedding call fails, never by the interleaving: it is answered with
\* context from a populated vector database or without document context; and
\* a chat request started after clear_document, before an upload has
\* succeeded again, retrieves nothing.
C30_ChatNeverFailsByInterleaving ==
    requests.chat.pc = "done" =>
        /\ requests.chat.status_code = 500 => requests.chat.error = EmbeddingFailure
        /\ requests.chat.status_code = 200 =>
              \/ requests.chat.context = << >>
              \/ requests.chat.context[1].populated
        /\ requests.chat.after_clear => requests.chat.context = << >>

====
